---- MODULE Spec2Model ----
(***************************************************************************)
(* Model of the LinkedIn export pipeline of the skill collection:          *)
(* parse_export.py (CSV and date parsing), analyze.py (keyword             *)
(* classifiers, relationship scorer, spam heuristic) and sanitize.py       *)
(* (name and company anonymizer).  Every component is a state machine of   *)
(* its own with its own specification; the variables of the other          *)
(* components stay at their idle values.                                   *)
(***************************************************************************)
EXTENDS Integers, Sequences, FiniteSets, TLC

VARIABLES
  \* sanitize.py, build_name_map / sanitize_all
  nm_pc,       \* "build" while connections are read, "done" after sanitize_all
  nm_conns,    \* data["connections"]: the connections read so far
  nm_run,      \* two runs of build_name_map on nm_conns: name_map, used_names, indices
  nm_out       \* the connections as sanitize_all returns them (first run)

VARIABLES
  \* analyze.py, _is_spam
  sp_pc,       \* "compose" while the message is written, "done" once classified
  sp_content,  \* the message content
  sp_phrases,  \* the SPAM_INDICATORS entries the content was written with
  sp_chunks,   \* how many chunks the content was written from
  sp_result    \* what _is_spam returned

VARIABLES
  \* analyze.py, cluster_network / categorize_companies
  cl_pc,       \* "input" while the list is given, "done" once classified
  cl_mode,     \* "connections" (cluster_network) or "follows" (categorize_companies)
  cl_records,  \* the input list
  cl_results   \* the returned list of clusters

VARIABLES
  \* parse_export.py, parse_date
  pd_pc,       \* "input" while the string is written, "done" once parsed
  pd_raw,      \* the argument: None or a string
  pd_chunks,   \* the names of the chunks the string was written from
  pd_result    \* what parse_date returned

VARIABLES
  \* parse_export.py, parse_connections
  cv_pc,       \* "write" while the file is written, "closed" after a last
               \* line without line end, "done" once parsed
  cv_eol,      \* the line end of the file: "\n" or "\r\n"
  cv_file,     \* the characters of Connections.csv
  cv_lines,    \* what was written on each line
  cv_expected, \* the records the data lines stand for
  cv_results   \* what parse_connections returned

VARIABLES
  \* analyze.py, score_messages
  sc_pc,       \* "input" while the inbox fills, "done" once scored
  sc_messages, \* the messages argument
  sc_enriched  \* the returned connections with tier and last_message_date

VARIABLES
  \* sanitize.py, sanitize_companies
  co_pc,       \* "input" while the records are given, "done" once sanitized
  co_data,     \* the records of data that carry a company
  co_map,      \* the returned company_map
  co_out       \* the records of the returned data

VARIABLES
  \* sanitize.py, sanitize_all on connections and messages; analyze.py,
  \* score_messages and classify_inbox before and after
  ib_pc,       \* "input" while the inbox fills, "sanitized", then "done"
  ib_messages, \* data["messages"]
  ib_out,      \* connections and messages of the data sanitize_all returned
  ib_metrics   \* the tiers and the inbox periods of the original and of the
               \* sanitized data

VARIABLES
  \* generate_viz.py, inject_data
  vz_pc,       \* "input" while the template is written, "done" once injected
  vz_template, \* the chunks template_html is written from
  vz_call      \* the arguments of the call and the string it returned

VARIABLES
  \* the --output flag of the Klaviyo and Shopify scripts
  op_pc,       \* "input" while the path is typed, "done" once a script ran
  op_path,     \* args.output: whether it starts at the root, its segments
  op_run       \* the script that ran, the files it wrote, how it ended

VARIABLES
  \* a call of a public method of one of the three API clients
  ap_pc,       \* "ready", "request" while _raw_request tries, "done"
  ap_call,     \* the client, the method, what the server answered so far
  ap_result    \* how the method ended: returned, or the exception raised

VARIABLES
  \* generate_individual's loop over the page templates
  pg_pc,         \* "loop", "done"
  pg_done,       \* the templates the loop has dealt with, in order
  pg_generated,  \* the list `generated`
  pg_written     \* the output files written in full

VARIABLES
  \* parse_all and the parsers on an export folder
  ex_pc,      \* "folder" while files are put in, "parsed", "all"
  ex_folder,  \* [is_dir, files]: the files of the folder and what they hold
  ex_call,    \* the parser called and its path
  ex_data     \* what the call returned

VARIABLES
  \* ShopifyAnalyticsClient._paginate
  pn_pc,         \* "loop", "done"
  pn_max_items,  \* the argument max_items
  pn_pages,      \* the responses received, in order
  pn_all_items,  \* the list all_items
  pn_url,        \* the variable url: the next page's URL or None
  pn_result      \* the list returned

VARIABLES
  \* the timing of ShopifyAnalyticsClient's HTTP requests, in tenths of a
  \* second
  rl_pc,                 \* "ready" between calls, "attempt" in _raw_request
  rl_clock,              \* time.time()
  rl_last_request_time,  \* self._last_request_time
  rl_attempt,            \* the loop variable `attempt`
  rl_requests            \* the requests issued: when, and how answered

VARIABLES
  \* KlaviyoDevClient.export_profiles
  xp_pc,         \* "loop", "done"
  xp_max_pages,  \* the argument max_pages: <<>> for None, <<n>> for n
  xp_pages,      \* the pages fetched, in order (page_count is their number)
  xp_profiles,   \* the list `profiles`
  xp_cursor      \* the variable `cursor`

VARIABLES
  \* KlaviyoDevTools.import_csv
  ic_pc,       \* "loop", "done"
  ic_total,    \* the number of profiles read from the CSV file
  ic_batches,  \* results["batches"]
  ic_summary   \* results["summary"]

VARIABLES
  \* KlaviyoDevTools.health_check
  hc_pc,      \* "ready", "done"
  hc_api,     \* how the account answers get_metrics, export_profiles and
              \* get_catalog_items
  hc_results  \* the dict returned, and the API calls made

VARIABLES
  \* SkillPackSetup.run
  su_pc,          \* the step run() is about to take, or "done"
  su_args,        \* non_interactive, skip_install, whether the
                  \* prerequisites are met, the skills that are offered
  su_steps,       \* the steps executed, in order
  su_configured,  \* self.configured_skills
  su_skipped,     \* self.skipped_skills
  su_env_files    \* the skills whose .env file was written

nmVars == <<nm_pc, nm_conns, nm_run, nm_out>>

spVars == <<sp_pc, sp_content, sp_phrases, sp_chunks, sp_result>>

clVars == <<cl_pc, cl_mode, cl_records, cl_results>>

pdVars == <<pd_pc, pd_raw, pd_chunks, pd_result>>

cvVars == <<cv_pc, cv_eol, cv_file, cv_lines, cv_expected, cv_results>>

scVars == <<sc_pc, sc_messages, sc_enriched>>

coVars == <<co_pc, co_data, co_map, co_out>>

ibVars == <<ib_pc, ib_messages, ib_out, ib_metrics>>

vzVars == <<vz_pc, vz_template, vz_call>>

opVars == <<op_pc, op_path, op_run>>

apVars == <<ap_pc, ap_call, ap_result>>

pgVars == <<pg_pc, pg_done, pg_generated, pg_written>>

exVars == <<ex_pc, ex_folder, ex_call, ex_data>>

pnVars == <<pn_pc, pn_max_items, pn_pages, pn_all_items, pn_url, pn_result>>

rlVars == <<rl_pc, rl_clock, rl_last_request_time, rl_attempt, rl_requests>>

xpVars == <<xp_pc, xp_max_pages, xp_pages, xp_profiles, xp_cursor>>

icVars == <<ic_pc, ic_total, ic_batches, ic_summary>>

hcVars == <<hc_pc, hc_api, hc_results>>

suVars ==
  <<su_pc, su_args, su_steps, su_configured, su_skipped, su_env_files>>

vars ==
  <<nmVars, spVars, clVars, pdVars, cvVars, scVars, coVars, ibVars, vzVars,
    opVars, apVars, pgVars, exVars, pnVars, rlVars, xpVars, icVars, hcVars,
    suVars>>

\* The components other than c are not running
Idle(c) ==
  /\ IF c = "names" THEN TRUE
     ELSE nm_pc = "idle" /\ nm_conns = <<>> /\ nm_run = <<>> /\ nm_out = <<>>
  /\ IF c = "spam" THEN TRUE
     ELSE /\ sp_pc = "idle" /\ sp_content = <<>> /\ sp_phrases = {}
          /\ sp_chunks = 0 /\ sp_result = FALSE
  /\ IF c = "cluster" THEN TRUE
     ELSE /\ cl_pc = "idle" /\ cl_mode = "none" /\ cl_records = <<>>
          /\ cl_results = <<>>
  /\ IF c = "date" THEN TRUE
     ELSE /\ pd_pc = "idle" /\ pd_raw = <<>> /\ pd_chunks = <<>>
          /\ pd_result = <<>>
  /\ IF c = "csv" THEN TRUE
     ELSE /\ cv_pc = "idle" /\ cv_eol = <<>> /\ cv_file = <<>>
          /\ cv_lines = <<>> /\ cv_expected = <<>> /\ cv_results = <<>>
  /\ IF c = "score" THEN TRUE
     ELSE sc_pc = "idle" /\ sc_messages = <<>> /\ sc_enriched = <<>>
  /\ IF c = "companies" THEN TRUE
     ELSE co_pc = "idle" /\ co_data = <<>> /\ co_map = <<>> /\ co_out = <<>>
  /\ IF c = "inbox" THEN TRUE
     ELSE /\ ib_pc = "idle" /\ ib_messages = <<>> /\ ib_out = <<>>
          /\ ib_metrics = <<>>
  /\ IF c = "viz" THEN TRUE
     ELSE vz_pc = "idle" /\ vz_template = <<>> /\ vz_call = <<>>
  /\ IF c = "output" THEN TRUE
     ELSE op_pc = "idle" /\ op_path = <<>> /\ op_run = <<>>
  /\ IF c = "api" THEN TRUE
     ELSE ap_pc = "idle" /\ ap_call = <<>> /\ ap_result = <<>>
  /\ IF c = "pages" THEN TRUE
     ELSE pg_pc = "idle" /\ pg_done = <<>> /\ pg_generated = <<>>
          /\ pg_written = {}
  /\ IF c = "export" THEN TRUE
     ELSE ex_pc = "idle" /\ ex_folder = <<>> /\ ex_call = <<>>
          /\ ex_data = <<>>
  /\ IF c = "paginate" THEN TRUE
     ELSE pn_pc = "idle" /\ pn_max_items = 0 /\ pn_pages = <<>>
          /\ pn_all_items = <<>> /\ pn_url = <<>> /\ pn_result = <<>>
  /\ IF c = "rate" THEN TRUE
     ELSE rl_pc = "idle" /\ rl_clock = 0 /\ rl_last_request_time = 0
          /\ rl_attempt = 0 /\ rl_requests = <<>>
  /\ IF c = "profiles" THEN TRUE
     ELSE xp_pc = "idle" /\ xp_max_pages = <<>> /\ xp_pages = <<>>
          /\ xp_profiles = <<>> /\ xp_cursor = <<>>
  /\ IF c = "import" THEN TRUE
     ELSE ic_pc = "idle" /\ ic_total = 0 /\ ic_batches = <<>>
          /\ ic_summary = <<>>
  /\ IF c = "health" THEN TRUE
     ELSE hc_pc = "idle" /\ hc_api = <<>> /\ hc_results = <<>>
  /\ IF c = "setup" THEN TRUE
     ELSE su_pc = "idle" /\ su_args = <<>> /\ su_steps = <<>>
          /\ su_configured = <<>> /\ su_skipped = <<>> /\ su_env_files = {}

\* A step of component c leaves the other components as they are
Frame(c) ==
  /\ IF c = "names" THEN TRUE ELSE UNCHANGED nmVars
  /\ IF c = "spam" THEN TRUE ELSE UNCHANGED spVars
  /\ IF c = "cluster" THEN TRUE ELSE UNCHANGED clVars
  /\ IF c = "date" THEN TRUE ELSE UNCHANGED pdVars
  /\ IF c = "csv" THEN TRUE ELSE UNCHANGED cvVars
  /\ IF c = "score" THEN TRUE ELSE UNCHANGED scVars
  /\ IF c = "companies" THEN TRUE ELSE UNCHANGED coVars
  /\ IF c = "inbox" THEN TRUE ELSE UNCHANGED ibVars
  /\ IF c = "viz" THEN TRUE ELSE UNCHANGED vzVars
  /\ IF c = "output" THEN TRUE ELSE UNCHANGED opVars
  /\ IF c = "api" THEN TRUE ELSE UNCHANGED apVars
  /\ IF c = "pages" THEN TRUE ELSE UNCHANGED pgVars
  /\ IF c = "export" THEN TRUE ELSE UNCHANGED exVars
  /\ IF c = "paginate" THEN TRUE ELSE UNCHANGED pnVars
  /\ IF c = "rate" THEN TRUE ELSE UNCHANGED rlVars
  /\ IF c = "profiles" THEN TRUE ELSE UNCHANGED xpVars
  /\ IF c = "import" THEN TRUE ELSE UNCHANGED icVars
  /\ IF c = "health" THEN TRUE ELSE UNCHANGED hcVars
  /\ IF c = "setup" THEN TRUE ELSE UNCHANGED suVars

(***************************************************************************)
(* Text.  A Python str is modelled as a sequence of one-character strings, *)
(* so that lower(), strip(), `in`, endswith and comparison are computed on *)
(* the characters as the interpreter computes them.                        *)
(***************************************************************************)

\* The printable ASCII characters in code-point order, starting at U+0020
\* (the double quote, the backslash and the backtick, which no modelled text
\* holds, are kept as placeholders so that the positions stay the code points).
ASCII ==
  <<" ","!","<quote>","#","$","%","&","'","(",")","*","+",",","-",".","/",
    "0","1","2","3","4","5","6","7","8","9",":",";","<","=",">","?",
    "@","A","B","C","D","E","F","G","H","I","J","K","L","M","N","O",
    "P","Q","R","S","T","U","V","W","X","Y","Z","[","<backslash>","]","^","_",
    "<backtick>","a","b","c","d","e","f","g","h","i","j","k","l","m","n","o",
    "p","q","r","s","t","u","v","w","x","y","z","{","|","}","~">>

\* ord(c) for the characters of the model's alphabet
Ord ==
  [c \in {ASCII[i] : i \in DOMAIN ASCII}
            \cup {"\t", "\n", "\r", "<I-dot>", "<dot-above>"} |->
     CASE c = "\t" -> 9
       [] c = "\n" -> 10
       [] c = "\r" -> 13
       [] c = "<I-dot>" -> 304
       [] c = "<dot-above>" -> 775
       [] OTHER -> 31 + (CHOOSE i \in DOMAIN ASCII : ASCII[i] = c)]

\* re's \d, str.isdigit
IsDigit(c) == Ord[c] \in 48..57

\* re's \s, str.isspace
IsSpace(c) == c \in {" ", "\t", "\n", "\r"}

\* A loop over the positions lo..hi in order: st is the loop's state before
\* position lo, Step(st, i) the state after the body has run on position i.
\* (The positions are taken half by half to keep the evaluation shallow;
\* {e : x \in {v}} is e with the local name x bound to the value of v.)
RECURSIVE FoldRange(_, _, _, _)
FoldRange(Step(_, _), st, lo, hi) ==
  IF lo > hi THEN st
  ELSE IF lo = hi THEN Step(st, lo)
  ELSE CHOOSE r \in {FoldRange(Step, mid, (lo + hi) \div 2 + 1, hi) :
                       mid \in {FoldRange(Step, st, lo, (lo + hi) \div 2)}} :
         TRUE

\* str.lower(): A..Z go to a..z; the capital I with a dot above (U+0130),
\* "<I-dot>", goes to the two characters "i" and the combining dot above
\* (U+0307), "<dot-above>", so the result can be longer than s
Lower(s) ==
  IF \A i \in 1..Len(s) : s[i] # "<I-dot>"
    THEN [i \in 1..Len(s) |->
            IF Ord[s[i]] \in 65..90 THEN ASCII[Ord[s[i]] + 32 - 31] ELSE s[i]]
    ELSE LET Step(out, i) ==
               IF s[i] = "<I-dot>" THEN out \o <<"i", "<dot-above>">>
               ELSE IF Ord[s[i]] \in 65..90
                 THEN Append(out, ASCII[Ord[s[i]] + 32 - 31])
               ELSE Append(out, s[i])
         IN  FoldRange(Step, <<>>, 1, Len(s))

\* str.strip()
Strip(s) ==
  LET kept == {i \in DOMAIN s : ~IsSpace(s[i])}
  IN  IF kept = {} THEN <<>>
      ELSE SubSeq(s, CHOOSE i \in kept : \A j \in kept : i <= j,
                     CHOOSE i \in kept : \A j \in kept : i >= j)

\* k occurs in s at (1-based) position i
OccursAt(k, s, i) ==
  /\ i + Len(k) - 1 <= Len(s)
  /\ \A j \in 1..Len(k) : s[i + j - 1] = k[j]

\* Python's `k in s` on strings
Contains(s, k) == \E i \in 1..(Len(s) - Len(k) + 1) : OccursAt(k, s, i)

\* str.endswith
EndsWith(s, k) == Len(k) <= Len(s) /\ OccursAt(k, s, Len(s) - Len(k) + 1)

\* str(n) for a natural number n
RECURSIVE Digits(_)
Digits(n) ==
  IF n < 10
    THEN <<ASCII[n + 17]>>
    ELSE Digits(n \div 10) \o <<ASCII[(n % 10) + 17]>>

\* Python's s < t on strings: lexicographic by code point
RECURSIVE StrLess(_, _)
StrLess(s, t) ==
  IF t = <<>> THEN FALSE
  ELSE IF s = <<>> THEN TRUE
  ELSE IF Head(s) = Head(t) THEN StrLess(Tail(s), Tail(t))
  ELSE Ord[Head(s)] < Ord[Head(t)]
FAKE_FIRST_NAMES_F ==
  <<
    <<"A","r","i","a">>,  \* Aria
    <<"N","o","v","a">>,  \* Nova
    <<"L","u","n","a">>,  \* Luna
    <<"S","a","g","e">>,  \* Sage
    <<"I","r","i","s">>,  \* Iris
    <<"W","r","e","n">>,  \* Wren
    <<"L","y","r","a">>,  \* Lyra
    <<"C","l","e","o">>,  \* Cleo
    <<"M","a","r","e","n">>,  \* Maren
    <<"T","h","e","a">>,  \* Thea
    <<"D","a","p","h","n","e">>,  \* Daphne
    <<"S","e","l","e","n","e">>,  \* Selene
    <<"F","r","e","y","a">>,  \* Freya
    <<"Z","a","r","a">>,  \* Zara
    <<"N","a","d","i","a">>,  \* Nadia
    <<"V","e","r","a">>,  \* Vera
    <<"C","a","m","i","l","l","e">>,  \* Camille
    <<"E","l","a","r","a">>,  \* Elara
    <<"R","o","w","a","n">>,  \* Rowan
    <<"S","a","b","l","e">>,  \* Sable
    <<"A","s","t","r","i","d">>,  \* Astrid
    <<"B","r","i","a","r">>,  \* Briar
    <<"C","e","l","e","s","t","e">>,  \* Celeste
    <<"D","a","h","l","i","a">>,  \* Dahlia
    <<"E","s","m","e">>,  \* Esme
    <<"F","l","o","r","a">>,  \* Flora
    <<"G","e","m","m","a">>,  \* Gemma
    <<"H","a","v","e","n">>,  \* Haven
    <<"I","v","y">>,  \* Ivy
    <<"J","a","d","e">>,  \* Jade
    <<"K","a","i","a">>,  \* Kaia
    <<"L","i","l","a">>,  \* Lila
    <<"M","i","l","a">>,  \* Mila
    <<"N","o","r","a">>,  \* Nora
    <<"O","p","a","l">>,  \* Opal
    <<"P","e","t","r","a">>,  \* Petra
    <<"Q","u","i","n","n">>,  \* Quinn
    <<"R","e","n">>,  \* Ren
    <<"S","t","e","l","l","a">>,  \* Stella
    <<"T","e","s","s","a">>,  \* Tessa
    <<"U","m","a">>,  \* Uma
    <<"V","i","o","l","a">>,  \* Viola
    <<"W","i","n","t","e","r">>,  \* Winter
    <<"X","e","n","a">>,  \* Xena
    <<"Y","a","r","a">>,  \* Yara
    <<"Z","o","l","a">>   \* Zola
  >>

FAKE_FIRST_NAMES_M ==
  <<
    <<"K","a","i">>,  \* Kai
    <<"L","e","o">>,  \* Leo
    <<"A","t","l","a","s">>,  \* Atlas
    <<"O","r","i","o","n">>,  \* Orion
    <<"F","e","l","i","x">>,  \* Felix
    <<"J","a","s","p","e","r">>,  \* Jasper
    <<"E","z","r","a">>,  \* Ezra
    <<"M","i","l","o">>,  \* Milo
    <<"S","i","l","a","s">>,  \* Silas
    <<"R","o","n","a","n">>,  \* Ronan
    <<"A","x","e","l">>,  \* Axel
    <<"D","a","n","t","e">>,  \* Dante
    <<"E","l","l","i","s">>,  \* Ellis
    <<"F","o","r","r","e","s","t">>,  \* Forrest
    <<"G","r","i","f","f","i","n">>,  \* Griffin
    <<"H","u","g","o">>,  \* Hugo
    <<"I","v","a","n">>,  \* Ivan
    <<"J","u","d","e">>,  \* Jude
    <<"K","n","o","x">>,  \* Knox
    <<"L","e","a","n","d","e","r">>,  \* Leander
    <<"M","a","g","n","u","s">>,  \* Magnus
    <<"N","a","s","h">>,  \* Nash
    <<"O","s","c","a","r">>,  \* Oscar
    <<"P","a","x">>,  \* Pax
    <<"R","e","m","y">>,  \* Remy
    <<"S","t","e","r","l","i","n","g">>,  \* Sterling
    <<"T","o","b","i","a","s">>,  \* Tobias
    <<"V","i","g","g","o">>,  \* Viggo
    <<"W","e","l","l","s">>,  \* Wells
    <<"X","a","n","d","e","r">>,  \* Xander
    <<"Y","o","r","k">>,  \* York
    <<"Z","a","n","e">>,  \* Zane
    <<"A","r","l","o">>,  \* Arlo
    <<"B","e","c","k">>,  \* Beck
    <<"C","a","d","e">>,  \* Cade
    <<"D","r","a","k","e">>,  \* Drake
    <<"E","m","m","e","t","t">>,  \* Emmett
    <<"F","l","y","n","n">>,  \* Flynn
    <<"G","r","a","n","t">>,  \* Grant
    <<"H","e","a","t","h">>,  \* Heath
    <<"I","d","r","i","s">>,  \* Idris
    <<"J","e","t","t">>,  \* Jett
    <<"K","i","e","r","a","n">>,  \* Kieran
    <<"L","a","c","h","l","a","n">>,  \* Lachlan
    <<"M","a","r","c","o">>,  \* Marco
    <<"N","i","c","o">>   \* Nico
  >>

FAKE_LAST_NAMES ==
  <<
    <<"A","s","h","f","o","r","d">>,  \* Ashford
    <<"B","l","a","c","k","w","e","l","l">>,  \* Blackwell
    <<"C","a","l","l","o","w","a","y">>,  \* Calloway
    <<"D","e","v","e","r","e","a","u","x">>,  \* Devereaux
    <<"E","a","s","t","w","o","o","d">>,  \* Eastwood
    <<"F","a","i","r","c","h","i","l","d">>,  \* Fairchild
    <<"G","a","l","l","a","g","h","e","r">>,  \* Gallagher
    <<"H","a","r","t","w","e","l","l">>,  \* Hartwell
    <<"I","r","v","i","n","e">>,  \* Irvine
    <<"J","a","m","e","s","o","n">>,  \* Jameson
    <<"K","e","a","t","i","n","g">>,  \* Keating
    <<"L","a","n","c","a","s","t","e","r">>,  \* Lancaster
    <<"M","e","r","c","e","r">>,  \* Mercer
    <<"N","o","r","t","h","w","o","o","d">>,  \* Northwood
    <<"O","c","o","n","n","e","l","l">>,  \* Oconnell
    <<"P","r","e","s","c","o","t","t">>,  \* Prescott
    <<"Q","u","i","n","l","a","n">>,  \* Quinlan
    <<"R","e","d","m","o","n","d">>,  \* Redmond
    <<"S","i","n","c","l","a","i","r">>,  \* Sinclair
    <<"T","h","o","r","n","e">>,  \* Thorne
    <<"U","n","d","e","r","w","o","o","d">>,  \* Underwood
    <<"V","o","s","s">>,  \* Voss
    <<"W","h","i","t","f","i","e","l","d">>,  \* Whitfield
    <<"X","i","m","e","n","e","z">>,  \* Ximenez
    <<"Y","a","r","d","l","e","y">>,  \* Yardley
    <<"Z","h","a","o">>,  \* Zhao
    <<"A","l","d","r","i","d","g","e">>,  \* Aldridge
    <<"B","r","e","n","n","a","n">>,  \* Brennan
    <<"C","a","r","v","e","r">>,  \* Carver
    <<"D","r","a","k","e">>,  \* Drake
    <<"E","v","e","r","e","t","t">>,  \* Everett
    <<"F","r","o","s","t">>,  \* Frost
    <<"G","r","a","y">>,  \* Gray
    <<"H","o","l","m","e","s">>,  \* Holmes
    <<"I","n","g","r","a","m">>,  \* Ingram
    <<"J","e","n","s","e","n">>,  \* Jensen
    <<"K","l","e","i","n">>,  \* Klein
    <<"L","o","c","k","w","o","o","d">>,  \* Lockwood
    <<"M","o","n","r","o","e">>,  \* Monroe
    <<"N","o","l","a","n">>,  \* Nolan
    <<"P","a","l","m","e","r">>,  \* Palmer
    <<"R","e","e","d">>,  \* Reed
    <<"S","t","o","n","e">>,  \* Stone
    <<"T","u","r","n","e","r">>,  \* Turner
    <<"V","a","u","g","h","n">>,  \* Vaughn
    <<"W","a","l","s","h">>   \* Walsh
  >>

\* Order produced by random.Random(42).shuffle on the three pools, in the
\* order the code shuffles them (0-based indices into the unshuffled pool).
ShuffleOrderF ==
  <<
    18, 21, 28, 10, 23, 9, 29, 33, 12, 3, 37, 4, 41, 25, 11, 32, 35, 39,
    45, 30, 31, 26, 24, 20, 22, 38, 42, 0, 19, 16, 44, 13, 36, 43, 2, 27,
    5, 34, 6, 8, 14, 15, 17, 1, 7, 40
  >>

ShuffleOrderM ==
  <<
    0, 13, 31, 1, 43, 22, 37, 17, 28, 25, 26, 16, 15, 10, 9, 30, 41, 6, 19,
    21, 40, 11, 20, 32, 8, 39, 3, 44, 42, 27, 33, 38, 14, 45, 4, 12, 36,
    23, 18, 35, 5, 24, 7, 34, 29, 2
  >>

ShuffleOrderL ==
  <<
    21, 33, 34, 5, 16, 24, 45, 37, 6, 10, 43, 44, 0, 19, 1, 15, 32, 28, 11,
    12, 22, 35, 18, 27, 30, 26, 40, 23, 7, 39, 8, 9, 29, 41, 31, 38, 42,
    36, 13, 4, 17, 25, 20, 2, 14, 3
  >>

\* f_pool, m_pool, l_pool after rng.shuffle
f_pool ==
  [i \in DOMAIN FAKE_FIRST_NAMES_F |-> FAKE_FIRST_NAMES_F[ShuffleOrderF[i] + 1]]

m_pool ==
  [i \in DOMAIN FAKE_FIRST_NAMES_M |-> FAKE_FIRST_NAMES_M[ShuffleOrderM[i] + 1]]

l_pool ==
  [i \in DOMAIN FAKE_LAST_NAMES |-> FAKE_LAST_NAMES[ShuffleOrderL[i] + 1]]

FEMININE_ENDINGS ==
  <<
    <<"a">>, <<"e">>, <<"i">>, <<"y">>, <<"a","h">>, <<"i","e">>,
    <<"n","a">>, <<"l","a">>, <<"n","e">>
  >>

\* range(50): the tries of the uniqueness loop
TRY_LIMIT == 50

\* _guess_gender; `choice` is what random.choice(["M", "F"]) of the global
\* generator returns, read only when the first name is empty
GuessGender(first_name, choice) ==
  IF first_name = <<>> THEN choice
  ELSE LET name_lower == Lower(Strip(first_name))
       IN  IF \E e \in 1..Len(FEMININE_ENDINGS) :
                 EndsWith(name_lower, FEMININE_ENDINGS[e])
             THEN "F"
             ELSE "M"

\* f"{first} {last}"
JoinName(first, last) == first \o <<" ">> \o last

\* real_full of build_name_map: both parts stripped, joined, stripped
RealFull(conn) ==
  Strip(JoinName(Strip(conn.first_name), Strip(conn.last_name)))

\* The loop `for _ in range(50)`: the pools are read at the running indices,
\* which advance on every try, until a full name not in used_names is found.
RECURSIVE GenerateUnique(_, _, _, _)
GenerateUnique(gender, st, used, tries) ==
  IF tries = 0
    THEN [found |-> FALSE, st |-> st, first_name |-> <<>>, last_name |-> <<>>]
    ELSE
      LET fake_first == IF gender = "F"
                          THEN f_pool[(st.f_idx % Len(f_pool)) + 1]
                          ELSE m_pool[(st.m_idx % Len(m_pool)) + 1]
          fake_last  == l_pool[(st.l_idx % Len(l_pool)) + 1]
          st2 == [f_idx |-> IF gender = "F" THEN st.f_idx + 1 ELSE st.f_idx,
                  m_idx |-> IF gender = "F" THEN st.m_idx ELSE st.m_idx + 1,
                  l_idx |-> st.l_idx + 1]
      IN  IF JoinName(fake_first, fake_last) \notin used
            THEN [found |-> TRUE, st |-> st2,
                  first_name |-> fake_first, last_name |-> fake_last]
            ELSE GenerateUnique(gender, st2, used, tries - 1)

\* One iteration of `for conn in connections` on the run state r
NameMapIteration(r, conn, choice) ==
  LET first == Strip(conn.first_name)
      real_full == RealFull(conn)
  IN  IF real_full = <<>> \/ real_full \in DOMAIN r.name_map
        THEN r
        ELSE
          LET g == GenerateUnique(GuessGender(first, choice), r.idx,
                                  r.used_names, TRY_LIMIT)
              fake_full == JoinName(g.first_name, g.last_name)
          IN  IF g.found
                THEN [name_map |-> r.name_map @@
                         (real_full :> [first_name |-> g.first_name,
                                        last_name |-> g.last_name,
                                        full |-> fake_full]),
                      used_names |-> r.used_names \cup {fake_full},
                      idx |-> g.st]
                ELSE [r EXCEPT !.idx = g.st]

\* real_full of sanitize_all: the two fields joined, then stripped
SanitizeRealFull(conn) == Strip(JoinName(conn.first_name, conn.last_name))

\* Step 2 of sanitize_all on one connection
SanitizeConnection(conn, name_map) ==
  IF SanitizeRealFull(conn) \in DOMAIN name_map
    THEN [conn EXCEPT
            !.first_name = name_map[SanitizeRealFull(conn)].first_name,
            !.last_name = name_map[SanitizeRealFull(conn)].last_name]
    ELSE conn

\* ----- inputs of the name-map model -----

\* Longest connection list
MaxConns == 48

\* The first MaxVaried connections are of any sampled kind, the later ones
\* have a feminine first name and a last name of their own
MaxVaried == 2

\* The connections the list may go on with: a last name "L<n>" of its own
\* for the n-th, under a feminine, a masculine or an empty first name, a
\* connection without any name, or one that is in the list already
NextConnections(n) ==
  IF n <= MaxVaried
    THEN {[first_name |-> f, last_name |-> <<"L">> \o Digits(n)] :
             f \in {<<"A","n","n","a">>, <<"B","o","b">>, <<>>}}
         \cup {[first_name |-> <<>>, last_name |-> <<>>]}
         \cup {nm_conns[i] : i \in 1..Len(nm_conns)}
    ELSE {[first_name |-> <<"A","n","n","a">>,
           last_name |-> <<"L">> \o Digits(n)]}

\* sanitize_all is entered: build_name_map starts, in two runs, with an
\* empty map, no used name and the three pool indices at 0
NamesInit ==
  /\ nm_pc = "build"
  /\ nm_conns = <<>>
  /\ nm_run = [r \in 1..2 |->
                 [name_map |-> <<>>, used_names |-> {},
                  idx |-> [f_idx |-> 0, m_idx |-> 0, l_idx |-> 0]]]
  /\ nm_out = <<>>
  /\ Idle("names")

\* build_name_map reads the next connection of the list, in two runs on the
\* same list; c1 and c2 are the global generator's answers in the two runs
BuildNameMapStep ==
  /\ nm_pc = "build"
  /\ Len(nm_conns) < MaxConns
  /\ \E conn \in NextConnections(Len(nm_conns) + 1), c1, c2 \in {"M", "F"} :
       /\ Strip(conn.first_name) # <<>> => (c1 = "M" /\ c2 = "M")
       /\ nm_conns' = Append(nm_conns, conn)
       /\ nm_run' = <<NameMapIteration(nm_run[1], conn, c1),
                      NameMapIteration(nm_run[2], conn, c2)>>
  /\ UNCHANGED <<nm_pc, nm_out>>
  /\ Frame("names")

\* sanitize_all, steps 1 and 2: the list is exhausted, the map is applied
SanitizeAll ==
  /\ nm_pc = "build"
  /\ nm_out' = [i \in 1..Len(nm_conns) |->
                  SanitizeConnection(nm_conns[i], nm_run[1].name_map)]
  /\ nm_pc' = "done"
  /\ UNCHANGED <<nm_conns, nm_run>>
  /\ Frame("names")

\* ----- claims on the name map -----

RealNames == {RealFull(nm_conns[i]) : i \in 1..Len(nm_conns)} \ {<<>>}

\* C1: build_name_map returns a bijective mapping: every distinct non-empty
\* real full name of the connection list has exactly one fake name, and no
\* two distinct real names have the same fake full name.
C1_NameMapBijective ==
  LET name_map == nm_run[1].name_map
  IN  /\ DOMAIN name_map = RealNames
      /\ \A a, b \in DOMAIN name_map :
           a # b => name_map[a].full # name_map[b].full

\* The part of C1 the code keeps: no two real names share a fake full name
NameMapInjective ==
  LET name_map == nm_run[1].name_map
  IN  /\ DOMAIN name_map \subseteq RealNames
      /\ \A a, b \in DOMAIN name_map :
           a # b => name_map[a].full # name_map[b].full

\* C2: for a connection list of any size every distinct non-empty real name
\* gets a fake name, so after sanitize_all every connection with a non-empty
\* real name carries the fake name of the map and no real connection name
\* is left in the output.
C2_NoRealNameRemains ==
  nm_pc = "done" =>
    \A i \in 1..Len(nm_conns) :
      RealFull(nm_conns[i]) # <<>> =>
        /\ RealFull(nm_conns[i]) \in DOMAIN nm_run[1].name_map
        /\ nm_out[i].first_name =
             nm_run[1].name_map[RealFull(nm_conns[i])].first_name
        /\ nm_out[i].last_name =
             nm_run[1].name_map[RealFull(nm_conns[i])].last_name
        /\ SanitizeRealFull(nm_out[i]) \notin RealNames

\* C9 (build_name_map): two runs on the same connection list build the same
\* map, whatever the global random generator answers.
C9_NameMapDeterministic == nm_run[1].name_map = nm_run[2].name_map

(***************************************************************************)
(* analyze.py: the spam heuristic _is_spam.                                *)
(***************************************************************************)

SPAM_INDICATORS ==
  <<
    <<"i"," ","n","o","t","i","c","e","d"," ","y","o","u","r"," ","p","r","o","f","i","l","e">>,  \* i noticed your profile
    <<"i"," ","c","a","m","e"," ","a","c","r","o","s","s"," ","y","o","u","r"," ","p","r","o","f","i","l","e">>,  \* i came across your profile
    <<"i"," ","s","a","w"," ","y","o","u","r"," ","p","r","o","f","i","l","e">>,  \* i saw your profile
    <<"l","i","m","i","t","e","d"," ","t","i","m","e">>,  \* limited time
    <<"e","x","c","l","u","s","i","v","e"," ","o","p","p","o","r","t","u","n","i","t","y">>,  \* exclusive opportunity
    <<"a","r","e"," ","y","o","u"," ","o","p","e","n"," ","t","o">>,  \* are you open to
    <<"w","e","'","r","e"," ","h","i","r","i","n","g">>,  \* we're hiring
    <<"w","e"," ","a","r","e"," ","h","i","r","i","n","g">>,  \* we are hiring
    <<"j","o","b"," ","o","p","p","o","r","t","u","n","i","t","y">>,  \* job opportunity
    <<"p","e","r","f","e","c","t"," ","f","i","t">>,  \* perfect fit
    <<"r","e","a","c","h","i","n","g"," ","o","u","t"," ","b","e","c","a","u","s","e">>,  \* reaching out because
    <<"t","h","o","u","g","h","t"," ","y","o","u","'","d"," ","b","e"," ","i","n","t","e","r","e","s","t","e","d">>,  \* thought you'd be interested
    <<"h","o","p","e"," ","t","h","i","s"," ","f","i","n","d","s"," ","y","o","u"," ","w","e","l","l">>,  \* hope this finds you well
    <<"i","'","d"," ","l","o","v","e"," ","t","o"," ","c","o","n","n","e","c","t">>,  \* i'd love to connect
    <<"o","p","e","n"," ","t","o"," ","e","x","p","l","o","r","i","n","g">>,  \* open to exploring
    <<"e","x","c","i","t","i","n","g"," ","o","p","p","o","r","t","u","n","i","t","y">>,  \* exciting opportunity
    <<"t","o","p"," ","t","a","l","e","n","t">>,  \* top talent
    <<"p","a","s","s","i","v","e"," ","c","a","n","d","i","d","a","t","e">>,  \* passive candidate
    <<"i","m","p","r","e","s","s","i","v","e"," ","b","a","c","k","g","r","o","u","n","d">>,  \* impressive background
    <<"q","u","i","c","k"," ","q","u","e","s","t","i","o","n">>,  \* quick question
    <<"j","u","s","t"," ","f","o","l","l","o","w","i","n","g"," ","u","p">>,  \* just following up
    <<"c","h","e","c","k","i","n","g"," ","i","n">>,  \* checking in
    <<"i"," ","h","e","l","p"," ","c","o","m","p","a","n","i","e","s">>,  \* i help companies
    <<"i"," ","h","e","l","p"," ","p","r","o","f","e","s","s","i","o","n","a","l","s">>,  \* i help professionals
    <<"r","e","v","e","n","u","e"," ","g","r","o","w","t","h">>,  \* revenue growth
    <<"b","o","o","k"," ","a"," ","c","a","l","l">>,  \* book a call
    <<"s","c","h","e","d","u","l","e"," ","a"," ","c","h","a","t">>,  \* schedule a chat
    <<"f","r","e","e"," ","c","o","n","s","u","l","t","a","t","i","o","n">>,  \* free consultation
    <<"f","r","e","e"," ","t","r","i","a","l">>,  \* free trial
    <<"d","e","m","o">>,  \* demo
    <<"w","e","b","i","n","a","r">>,  \* webinar
    <<"d","o","w","n","l","o","a","d"," ","o","u","r">>,  \* download our
    <<"u","n","s","u","b","s","c","r","i","b","e">>,  \* unsubscribe
    <<"o","p","t"," ","o","u","t">>   \* opt out
  >>

\* len(content) < 100
SPAM_SHORT_LIMIT == 100

\* The mutant of _is_spam that lets a long message with two indicators pass
IsSpamShortOnly(content) ==
  LET Matches(lower) == Cardinality({i \in 1..Len(SPAM_INDICATORS) :
                                       Contains(lower, SPAM_INDICATORS[i])})
  IN  CHOOSE spam \in
        {matches >= 1 /\ Len(content) < SPAM_SHORT_LIMIT :
           matches \in {Matches(lower) : lower \in {Lower(content)}}} : TRUE

\* _is_spam
IsSpam(content) ==
  LET Matches(lower) == Cardinality({i \in 1..Len(SPAM_INDICATORS) :
                                       Contains(lower, SPAM_INDICATORS[i])})
  IN  CHOOSE spam \in
        {matches >= 2 \/ (matches >= 1 /\ Len(content) < SPAM_SHORT_LIMIT) :
           matches \in {Matches(lower) : lower \in {Lower(content)}}} : TRUE

\* ----- inputs of the spam model -----

\* Chunks a message is written from: text, and the SPAM_INDICATORS entry the
\* text holds (0: none)
SamplePhrases ==
  <<
    [text |-> <<"D","e","m","o">>, indicator |-> 30],
    [text |-> <<"Q","U","I","C","K"," ","Q","U","E","S","T","I","O","N">>, indicator |-> 20],
    [text |-> <<"w","e","'","r","e"," ","h","i","r","i","n","g">>, indicator |-> 7],
    [text |-> <<"T","h","a","n","k","s"," ","f","o","r"," ","t","h","e"," ","u","p","d","a","t","e",","," ","s","e","e"," ","y","o","u"," ","o","n"," ","M","o","n","d","a","y">>,
     indicator |-> 0]
  >>

\* Most chunks of one message
MaxPhrases == 3

\* Longest padded message
MaxContentLen == 102

SpamInit ==
  /\ sp_pc = "compose"
  /\ sp_content = <<>>
  /\ sp_phrases = {}
  /\ sp_chunks = 0
  /\ sp_result = FALSE
  /\ Idle("spam")

\* The message gets one more chunk (after a blank, unless it is the first);
\* sp_phrases records which indicators the message was written with
AppendPhrase ==
  /\ sp_pc = "compose"
  /\ sp_chunks < MaxPhrases
  /\ IF sp_content = <<>> THEN TRUE ELSE sp_content[Len(sp_content)] # "x"
  /\ \E p \in 1..Len(SamplePhrases) :
       /\ sp_content' =
            (IF sp_content = <<>> THEN <<>> ELSE sp_content \o <<" ">>)
              \o SamplePhrases[p].text
       /\ sp_phrases' = sp_phrases \cup ({SamplePhrases[p].indicator} \ {0})
  /\ sp_chunks' = sp_chunks + 1
  /\ UNCHANGED <<sp_pc, sp_result>>
  /\ Frame("spam")

\* The message is padded with "x": up to four characters below the length
\* limit in one go, one character at a time from there on
AppendFiller ==
  /\ sp_pc = "compose"
  /\ Len(sp_content) < MaxContentLen
  /\ LET n == IF Len(sp_content) < SPAM_SHORT_LIMIT - 4
                THEN SPAM_SHORT_LIMIT - 4 - Len(sp_content)
                ELSE 1
     IN  sp_content' = sp_content \o [i \in 1..n |-> "x"]
  /\ UNCHANGED <<sp_pc, sp_phrases, sp_chunks, sp_result>>
  /\ Frame("spam")

\* _is_spam(content) is called on the message
ClassifyMessage ==
  /\ sp_pc = "compose"
  /\ sp_result' = IsSpam(sp_content)
  /\ sp_pc' = "done"
  /\ UNCHANGED <<sp_content, sp_phrases, sp_chunks>>
  /\ Frame("spam")

\* ----- claims on the spam heuristic -----

\* The indicators the message was written with are the ones that occur in it
SpamPhrasesExact ==
  sp_phrases = {i \in 1..Len(SPAM_INDICATORS) :
                  Contains(Lower(sp_content), SPAM_INDICATORS[i])}

\* C3: _is_spam(content) is true iff at least 2 indicator phrases occur in
\* the lower-cased content, or at least 1 occurs and the content is shorter
\* than 100 characters; two distinct indicators make a message noise
\* whatever its length.
C3_SpamIffIndicators ==
  sp_pc = "done" =>
    /\ sp_result = (\/ Cardinality(sp_phrases) >= 2
                    \/ (Cardinality(sp_phrases) >= 1 /\ Len(sp_content) < 100))
    /\ Cardinality(sp_phrases) >= 2 => sp_result

\* A message of 100 characters or more with two distinct indicators, found noise
C3_Witness ==
  /\ sp_pc = "done"
  /\ Cardinality(sp_phrases) = 2
  /\ Len(sp_content) >= 100
  /\ sp_result

(***************************************************************************)
(* analyze.py: cluster_network and categorize_companies.                   *)
(***************************************************************************)

\* _CLUSTER_DEFINITIONS with the ten keyword lists, in list order
CLUSTER_DEFINITIONS ==
  <<
    [name |-> "Founders & CEOs", keywords |-> <<
      <<"f","o","u","n","d","e","r">>,  \* founder
      <<"c","o","-","f","o","u","n","d","e","r">>,  \* co-founder
      <<"c","o","f","o","u","n","d","e","r">>,  \* cofounder
      <<"c","e","o">>,  \* ceo
      <<"c","h","i","e","f"," ","e","x","e","c","u","t","i","v","e">>,  \* chief executive
      <<"o","w","n","e","r">>,  \* owner
      <<"p","r","i","n","c","i","p","a","l">>,  \* principal
      <<"m","a","n","a","g","i","n","g"," ","p","a","r","t","n","e","r">>,  \* managing partner
      <<"e","n","t","r","e","p","r","e","n","e","u","r">>   \* entrepreneur
    >>],
    [name |-> "Tech & Engineering", keywords |-> <<
      <<"e","n","g","i","n","e","e","r">>,  \* engineer
      <<"d","e","v","e","l","o","p","e","r">>,  \* developer
      <<"s","o","f","t","w","a","r","e">>,  \* software
      <<"s","w","e">>,  \* swe
      <<"d","e","v","o","p","s">>,  \* devops
      <<"s","r","e">>,  \* sre
      <<"a","r","c","h","i","t","e","c","t">>,  \* architect
      <<"c","t","o">>,  \* cto
      <<"t","e","c","h"," ","l","e","a","d">>,  \* tech lead
      <<"d","a","t","a"," ","s","c","i","e","n","t","i","s","t">>,  \* data scientist
      <<"m","l"," ">>,  \* ml 
      <<"m","a","c","h","i","n","e"," ","l","e","a","r","n","i","n","g">>,  \* machine learning
      <<"f","u","l","l"," ","s","t","a","c","k">>,  \* full stack
      <<"f","u","l","l","s","t","a","c","k">>,  \* fullstack
      <<"f","r","o","n","t","e","n","d">>,  \* frontend
      <<"b","a","c","k","e","n","d">>,  \* backend
      <<"p","l","a","t","f","o","r","m">>,  \* platform
      <<"i","n","f","r","a","s","t","r","u","c","t","u","r","e">>,  \* infrastructure
      <<"s","e","c","u","r","i","t","y"," ","e","n","g","i","n","e","e","r">>   \* security engineer
    >>],
    [name |-> "Sales & BD", keywords |-> <<
      <<"s","a","l","e","s">>,  \* sales
      <<"a","c","c","o","u","n","t"," ","e","x","e","c","u","t","i","v","e">>,  \* account executive
      <<"b","u","s","i","n","e","s","s"," ","d","e","v","e","l","o","p","m","e","n","t">>,  \* business development
      <<"b","d","r">>,  \* bdr
      <<"s","d","r">>,  \* sdr
      <<"r","e","v","e","n","u","e">>,  \* revenue
      <<"p","a","r","t","n","e","r","s","h","i","p","s">>,  \* partnerships
      <<"a","e"," ">>,  \* ae 
      <<"a","c","c","o","u","n","t"," ","m","a","n","a","g","e","r">>   \* account manager
    >>],
    [name |-> "Marketing & Growth", keywords |-> <<
      <<"m","a","r","k","e","t","i","n","g">>,  \* marketing
      <<"b","r","a","n","d">>,  \* brand
      <<"c","o","n","t","e","n","t">>,  \* content
      <<"g","r","o","w","t","h">>,  \* growth
      <<"d","e","m","a","n","d"," ","g","e","n">>,  \* demand gen
      <<"c","m","o">>,  \* cmo
      <<"c","o","m","m","u","n","i","c","a","t","i","o","n","s">>,  \* communications
      <<"s","o","c","i","a","l"," ","m","e","d","i","a">>,  \* social media
      <<"d","i","g","i","t","a","l"," ","m","a","r","k","e","t","i","n","g">>,  \* digital marketing
      <<"e","m","a","i","l"," ","m","a","r","k","e","t","i","n","g">>,  \* email marketing
      <<"l","i","f","e","c","y","c","l","e">>,  \* lifecycle
      <<"c","r","m">>,  \* crm
      <<"r","e","t","e","n","t","i","o","n">>,  \* retention
      <<"a","c","q","u","i","s","i","t","i","o","n">>,  \* acquisition
      <<"p","e","r","f","o","r","m","a","n","c","e"," ","m","a","r","k","e","t","i","n","g">>,  \* performance marketing
      <<"p","r","o","d","u","c","t"," ","m","a","r","k","e","t","i","n","g">>,  \* product marketing
      <<"p","m","m">>   \* pmm
    >>],
    [name |-> "Product", keywords |-> <<
      <<"p","r","o","d","u","c","t"," ","m","a","n","a","g","e","r">>,  \* product manager
      <<"p","r","o","d","u","c","t"," ","l","e","a","d">>,  \* product lead
      <<"p","r","o","d","u","c","t"," ","d","i","r","e","c","t","o","r">>,  \* product director
      <<"v","p"," ","p","r","o","d","u","c","t">>,  \* vp product
      <<"h","e","a","d"," ","o","f"," ","p","r","o","d","u","c","t">>,  \* head of product
      <<"c","p","o">>,  \* cpo
      <<"p","r","o","d","u","c","t"," ","d","e","s","i","g","n">>,  \* product design
      <<"u","x">>,  \* ux
      <<"u","i","/","u","x">>   \* ui/ux
    >>],
    [name |-> "Design & Creative", keywords |-> <<
      <<"d","e","s","i","g","n","e","r">>,  \* designer
      <<"d","e","s","i","g","n"," ","l","e","a","d">>,  \* design lead
      <<"c","r","e","a","t","i","v","e"," ","d","i","r","e","c","t","o","r">>,  \* creative director
      <<"a","r","t"," ","d","i","r","e","c","t","o","r">>,  \* art director
      <<"v","i","s","u","a","l"," ","d","e","s","i","g","n">>,  \* visual design
      <<"g","r","a","p","h","i","c"," ","d","e","s","i","g","n">>,  \* graphic design
      <<"u","x"," ","d","e","s","i","g","n">>,  \* ux design
      <<"u","i"," ","d","e","s","i","g","n">>   \* ui design
    >>],
    [name |-> "Recruiting & HR", keywords |-> <<
      <<"r","e","c","r","u","i","t","e","r">>,  \* recruiter
      <<"t","a","l","e","n","t">>,  \* talent
      <<"r","e","c","r","u","i","t","i","n","g">>,  \* recruiting
      <<"p","e","o","p","l","e"," ","o","p","s">>,  \* people ops
      <<"h","r"," ">>,  \* hr 
      <<"h","u","m","a","n"," ","r","e","s","o","u","r","c","e","s">>,  \* human resources
      <<"h","e","a","d"," ","o","f"," ","p","e","o","p","l","e">>,  \* head of people
      <<"v","p"," ","p","e","o","p","l","e">>   \* vp people
    >>],
    [name |-> "Consulting & Strategy", keywords |-> <<
      <<"c","o","n","s","u","l","t","a","n","t">>,  \* consultant
      <<"a","d","v","i","s","o","r">>,  \* advisor
      <<"a","d","v","i","s","o","r","y">>,  \* advisory
      <<"f","r","e","e","l","a","n","c","e">>,  \* freelance
      <<"i","n","d","e","p","e","n","d","e","n","t">>,  \* independent
      <<"s","t","r","a","t","e","g","i","s","t">>,  \* strategist
      <<"s","t","r","a","t","e","g","y">>   \* strategy
    >>],
    [name |-> "Executive Leadership", keywords |-> <<
      <<"v","p"," ">>,  \* vp 
      <<"v","i","c","e"," ","p","r","e","s","i","d","e","n","t">>,  \* vice president
      <<"s","v","p">>,  \* svp
      <<"e","v","p">>,  \* evp
      <<"d","i","r","e","c","t","o","r">>,  \* director
      <<"h","e","a","d"," ","o","f">>,  \* head of
      <<"c","h","i","e","f">>,  \* chief
      <<"c","-","s","u","i","t","e">>,  \* c-suite
      <<"c","o","o">>,  \* coo
      <<"c","f","o">>,  \* cfo
      <<"c","r","o">>,  \* cro
      <<"c","m","o">>   \* cmo
    >>],
    [name |-> "Operations", keywords |-> <<
      <<"o","p","e","r","a","t","i","o","n","s">>,  \* operations
      <<"o","p","s"," ">>,  \* ops 
      <<"s","u","p","p","l","y"," ","c","h","a","i","n">>,  \* supply chain
      <<"l","o","g","i","s","t","i","c","s">>,  \* logistics
      <<"f","u","l","f","i","l","l","m","e","n","t">>,  \* fulfillment
      <<"p","r","o","c","u","r","e","m","e","n","t">>,  \* procurement
      <<"p","r","o","j","e","c","t"," ","m","a","n","a","g","e","r">>,  \* project manager
      <<"p","r","o","g","r","a","m"," ","m","a","n","a","g","e","r">>   \* program manager
    >>]
  >>

\* INDUSTRY_KEYWORDS, in the insertion order of the dict
INDUSTRY_KEYWORDS ==
  <<
    [name |-> "DTC / E-commerce", keywords |-> <<
      <<"b","e","a","u","t","y">>,  \* beauty
      <<"s","k","i","n">>,  \* skin
      <<"c","o","s","m","e","t","i","c">>,  \* cosmetic
      <<"f","a","s","h","i","o","n">>,  \* fashion
      <<"a","p","p","a","r","e","l">>,  \* apparel
      <<"c","l","o","t","h","i","n","g">>,  \* clothing
      <<"h","o","m","e">>,  \* home
      <<"d","e","c","o","r">>,  \* decor
      <<"f","o","o","d">>,  \* food
      <<"b","e","v","e","r","a","g","e">>,  \* beverage
      <<"w","e","l","l","n","e","s","s">>,  \* wellness
      <<"s","u","p","p","l","e","m","e","n","t">>,  \* supplement
      <<"j","e","w","e","l","r","y">>,  \* jewelry
      <<"a","c","c","e","s","s","o","r","i","e","s">>,  \* accessories
      <<"l","i","f","e","s","t","y","l","e">>,  \* lifestyle
      <<"r","e","t","a","i","l">>,  \* retail
      <<"s","h","o","p">>,  \* shop
      <<"s","t","o","r","e">>,  \* store
      <<"b","r","a","n","d">>,  \* brand
      <<"d","i","r","e","c","t">>,  \* direct
      <<"d","t","c">>,  \* dtc
      <<"d","2","c">>,  \* d2c
      <<"e","c","o","m","m","e","r","c","e">>,  \* ecommerce
      <<"e","-","c","o","m","m","e","r","c","e">>,  \* e-commerce
      <<"c","o","n","s","u","m","e","r">>,  \* consumer
      <<"s","u","b","s","c","r","i","p","t","i","o","n"," ","b","o","x">>   \* subscription box
    >>],
    [name |-> "Martech / SaaS", keywords |-> <<
      <<"k","l","a","v","i","y","o">>,  \* klaviyo
      <<"b","r","a","z","e">>,  \* braze
      <<"s","h","o","p","i","f","y">>,  \* shopify
      <<"a","t","t","e","n","t","i","v","e">>,  \* attentive
      <<"y","o","t","p","o">>,  \* yotpo
      <<"g","o","r","g","i","a","s">>,  \* gorgias
      <<"i","t","e","r","a","b","l","e">>,  \* iterable
      <<"s","a","i","l","t","h","r","u">>,  \* sailthru
      <<"s","e","g","m","e","n","t">>,  \* segment
      <<"a","m","p","l","i","t","u","d","e">>,  \* amplitude
      <<"m","i","x","p","a","n","e","l">>,  \* mixpanel
      <<"h","u","b","s","p","o","t">>,  \* hubspot
      <<"m","a","r","k","e","t","o">>,  \* marketo
      <<"s","a","l","e","s","f","o","r","c","e">>,  \* salesforce
      <<"p","l","a","t","f","o","r","m">>,  \* platform
      <<"s","a","a","s">>,  \* saas
      <<"s","o","f","t","w","a","r","e">>,  \* software
      <<"a","n","a","l","y","t","i","c","s">>,  \* analytics
      <<"d","a","t","a">>,  \* data
      <<"a","u","t","o","m","a","t","i","o","n">>,  \* automation
      <<"c","r","m">>,  \* crm
      <<"m","a","r","t","e","c","h">>,  \* martech
      <<"a","d","t","e","c","h">>   \* adtech
    >>],
    [name |-> "Tech", keywords |-> <<
      <<"t","e","c","h">>,  \* tech
      <<"t","e","c","h","n","o","l","o","g","y">>,  \* technology
      <<"a","i"," ">>,  \* ai 
      <<"a","r","t","i","f","i","c","i","a","l"," ","i","n","t","e","l","l","i","g","e","n","c","e">>,  \* artificial intelligence
      <<"m","a","c","h","i","n","e"," ","l","e","a","r","n","i","n","g">>,  \* machine learning
      <<"c","l","o","u","d">>,  \* cloud
      <<"c","y","b","e","r">>,  \* cyber
      <<"f","i","n","t","e","c","h">>,  \* fintech
      <<"b","i","o","t","e","c","h">>,  \* biotech
      <<"h","e","a","l","t","h","t","e","c","h">>,  \* healthtech
      <<"e","d","t","e","c","h">>,  \* edtech
      <<"p","r","o","p","t","e","c","h">>,  \* proptech
      <<"c","r","y","p","t","o">>,  \* crypto
      <<"b","l","o","c","k","c","h","a","i","n">>,  \* blockchain
      <<"c","o","m","p","u","t","i","n","g">>,  \* computing
      <<"d","i","g","i","t","a","l">>   \* digital
    >>],
    [name |-> "Recruiting / Staffing", keywords |-> <<
      <<"r","e","c","r","u","i","t","i","n","g">>,  \* recruiting
      <<"s","t","a","f","f","i","n","g">>,  \* staffing
      <<"t","a","l","e","n","t">>,  \* talent
      <<"h","i","r","i","n","g">>,  \* hiring
      <<"r","e","c","r","u","i","t","m","e","n","t">>,  \* recruitment
      <<"h","e","a","d","h","u","n","t">>,  \* headhunt
      <<"c","a","r","e","e","r">>,  \* career
      <<"j","o","b">>,  \* job
      <<"w","o","r","k","f","o","r","c","e">>   \* workforce
    >>],
    [name |-> "Luxury / Premium", keywords |-> <<
      <<"l","u","x","u","r","y">>,  \* luxury
      <<"p","r","e","m","i","u","m">>,  \* premium
      <<"h","i","g","h","-","e","n","d">>,  \* high-end
      <<"d","e","s","i","g","n","e","r">>,  \* designer
      <<"c","o","u","t","u","r","e">>,  \* couture
      <<"p","r","e","s","t","i","g","e">>,  \* prestige
      <<"a","r","t","i","s","a","n">>,  \* artisan
      <<"b","e","s","p","o","k","e">>   \* bespoke
    >>],
    [name |-> "Media / Publishing", keywords |-> <<
      <<"m","e","d","i","a">>,  \* media
      <<"p","u","b","l","i","s","h">>,  \* publish
      <<"n","e","w","s">>,  \* news
      <<"c","o","n","t","e","n","t">>,  \* content
      <<"e","d","i","t","o","r","i","a","l">>,  \* editorial
      <<"j","o","u","r","n","a","l","i","s","m">>,  \* journalism
      <<"e","n","t","e","r","t","a","i","n","m","e","n","t">>,  \* entertainment
      <<"p","o","d","c","a","s","t">>,  \* podcast
      <<"v","i","d","e","o">>   \* video
    >>],
    [name |-> "Agency / Services", keywords |-> <<
      <<"a","g","e","n","c","y">>,  \* agency
      <<"c","o","n","s","u","l","t","i","n","g">>,  \* consulting
      <<"c","o","n","s","u","l","t","a","n","c","y">>,  \* consultancy
      <<"s","e","r","v","i","c","e">>,  \* service
      <<"s","t","u","d","i","o">>,  \* studio
      <<"c","r","e","a","t","i","v","e"," ","a","g","e","n","c","y">>,  \* creative agency
      <<"d","i","g","i","t","a","l"," ","a","g","e","n","c","y">>,  \* digital agency
      <<"m","a","r","k","e","t","i","n","g"," ","a","g","e","n","c","y">>   \* marketing agency
    >>],
    [name |-> "Finance / VC", keywords |-> <<
      <<"v","e","n","t","u","r","e">>,  \* venture
      <<"c","a","p","i","t","a","l">>,  \* capital
      <<"i","n","v","e","s","t","m","e","n","t">>,  \* investment
      <<"f","u","n","d">>,  \* fund
      <<"f","i","n","a","n","c","e">>,  \* finance
      <<"b","a","n","k","i","n","g">>,  \* banking
      <<"p","r","i","v","a","t","e"," ","e","q","u","i","t","y">>,  \* private equity
      <<"p","e"," ">>,  \* pe 
      <<"v","c"," ">>,  \* vc 
      <<"a","n","g","e","l">>   \* angel
    >>]
  >>

\* The mutant of FirstMatch in which the last matching cluster wins
RECURSIVE LastMatch(_, _, _)
LastMatch(defs, text, k) ==
  IF k > Len(defs) THEN 0
  ELSE LET later == LastMatch(defs, text, k + 1)
       IN  IF later # 0 THEN later
           ELSE IF \E kw \in {defs[k].keywords[j] : j \in DOMAIN defs[k].keywords} : Contains(text, kw)
             THEN k
             ELSE 0

\* `for name, keywords in defs: if any(kw in text ...): ...; break`, from the
\* k-th entry on: the index of the first entry with a keyword in text, or 0
RECURSIVE FirstMatch(_, _, _)
FirstMatch(defs, text, k) ==
  IF k > Len(defs) THEN 0
  ELSE IF \E kw \in {defs[k].keywords[j] : j \in DOMAIN defs[k].keywords} : Contains(text, kw)
    THEN k
    ELSE FirstMatch(defs, text, k + 1)

\* clusters[name].append(item) on a defaultdict(list), kept in insertion order
AppendToBucket(buckets, name, item) ==
  IF \E b \in DOMAIN buckets : buckets[b].name = name
    THEN [b \in DOMAIN buckets |->
            IF buckets[b].name = name
              THEN [buckets[b] EXCEPT !.items = Append(@, item)]
              ELSE buckets[b]]
    ELSE Append(buckets, [name |-> name, items |-> <<item>>])

\* The classification loop over the lower-cased texts from the i-th on;
\* items are the indices of the records
RECURSIVE Bucketize(_, _, _, _)
Bucketize(defs, texts, i, acc) ==
  IF i > Len(texts) THEN acc
  ELSE LET k == FirstMatch(defs, Lower(texts[i]), 1)
       IN  IF k = 0
             THEN Bucketize(defs, texts, i + 1,
                            [acc EXCEPT !.unmatched = Append(@, i)])
             ELSE Bucketize(defs, texts, i + 1,
                            [acc EXCEPT !.buckets =
                               AppendToBucket(@, defs[k].name, i)])

\* sorted(buckets.items(), key=lambda x: -len(x[1])): stable, largest first
RECURSIVE SortBySize(_)
SortBySize(buckets) ==
  IF buckets = <<>> THEN <<>>
  ELSE LET done == SortBySize(SubSeq(buckets, 1, Len(buckets) - 1))
           x == buckets[Len(buckets)]
           n == Cardinality({j \in DOMAIN done :
                               Len(done[j].items) >= Len(x.items)})
       IN  SubSeq(done, 1, n) \o <<x>> \o SubSeq(done, n + 1, Len(done))

\* cluster_network (the field top_companies, a Counter summary of the
\* members, is left out)
ClusterNetwork(connections) ==
  LET texts == [i \in DOMAIN connections |-> connections[i].position]
      acc == Bucketize(CLUSTER_DEFINITIONS, texts, 1,
                       [buckets |-> <<>>, unmatched |-> <<>>])
      clusters == IF acc.unmatched # <<>>
                    THEN Append(acc.buckets, [name |-> "Other / Unclassified",
                                              items |-> acc.unmatched])
                    ELSE acc.buckets
      sorted == SortBySize(clusters)
  IN  [b \in DOMAIN sorted |->
         [name |-> sorted[b].name,
          count |-> Len(sorted[b].items),
          members |-> [j \in DOMAIN sorted[b].items |->
                         connections[sorted[b].items[j]]]]]

\* categorize_companies
CategorizeCompanies(follows) ==
  LET texts == [i \in DOMAIN follows |-> follows[i].company]
      acc == Bucketize(INDUSTRY_KEYWORDS, texts, 1,
                       [buckets |-> <<>>, unmatched |-> <<>>])
      buckets == IF acc.unmatched # <<>>
                   THEN Append(acc.buckets, [name |-> "Other",
                                             items |-> acc.unmatched])
                   ELSE acc.buckets
      sorted == SortBySize(buckets)
  IN  [b \in DOMAIN sorted |->
         [name |-> sorted[b].name,
          count |-> Len(sorted[b].items),
          members |-> [j \in DOMAIN sorted[b].items |->
                         follows[sorted[b].items[j]].company]]]

\* ----- inputs of the classifier model -----

\* Most records of one input list
MaxRecords == 3

SamplePositions ==
  {
    <<"F","o","u","n","d","e","r"," ","&"," ","C","E","O">>,
    <<"V","P"," ","S","a","l","e","s">>,
    <<"P","r","o","d","u","c","t"," ","O","w","n","e","r">>,
    <<"G","a","r","d","e","n","e","r">>,
    <<>>
  }

SampleFollows ==
  {
    <<"G","l","o","w"," ","B","e","a","u","t","y"," ","S","h","o","p">>,
    <<"S","a","l","e","s","f","o","r","c","e">>,
    <<"T","e","c","h","C","r","u","n","c","h"," ","M","e","d","i","a">>,
    <<"A","c","m","e"," ","C","o","r","p">>,
    <<>>
  }

ClusterInit ==
  /\ cl_pc = "input"
  /\ cl_mode \in {"connections", "follows"}
  /\ cl_records = <<>>
  /\ cl_results = <<>>
  /\ Idle("cluster")

\* The caller's list gets one more connection
AddConnection ==
  /\ cl_pc = "input" /\ cl_mode = "connections"
  /\ Len(cl_records) < MaxRecords
  /\ \E p \in SamplePositions :
       cl_records' = Append(cl_records,
                            [id |-> Len(cl_records) + 1, position |-> p])
  /\ UNCHANGED <<cl_pc, cl_mode, cl_results>>
  /\ Frame("cluster")

\* The caller's list gets one more company follow
AddFollow ==
  /\ cl_pc = "input" /\ cl_mode = "follows"
  /\ Len(cl_records) < MaxRecords
  /\ \E c \in SampleFollows :
       cl_records' = Append(cl_records,
                            [id |-> Len(cl_records) + 1, company |-> c])
  /\ UNCHANGED <<cl_pc, cl_mode, cl_results>>
  /\ Frame("cluster")

CallClusterNetwork ==
  /\ cl_pc = "input" /\ cl_mode = "connections"
  /\ cl_results' = ClusterNetwork(cl_records)
  /\ cl_pc' = "done"
  /\ UNCHANGED <<cl_mode, cl_records>>
  /\ Frame("cluster")

CallCategorizeCompanies ==
  /\ cl_pc = "input" /\ cl_mode = "follows"
  /\ cl_results' = CategorizeCompanies(cl_records)
  /\ cl_pc' = "done"
  /\ UNCHANGED <<cl_mode, cl_records>>
  /\ Frame("cluster")

\* ----- claims on the classifiers -----

\* The cluster the claim gives a text: the first entry of defs, in list
\* order, with a keyword occurring in the lower-cased text, else `other`
ClaimedCluster(defs, text, other) ==
  LET hits == {k \in DOMAIN defs :
                 \E j \in DOMAIN defs[k].keywords :
                   Contains(Lower(text), defs[k].keywords[j])}
  IN  IF hits = {} THEN other
      ELSE defs[CHOOSE k \in hits : \A h \in hits : k <= h].name

RECURSIVE SumCounts(_)
SumCounts(results) ==
  IF results = <<>> THEN 0
  ELSE results[1].count + SumCounts(Tail(results))

\* C4: cluster_network puts every connection in exactly one cluster, the
\* first of _CLUSTER_DEFINITIONS with a keyword in the lower-cased position
\* or 'Other / Unclassified'; categorize_companies does the same for follows
\* with INDUSTRY_KEYWORDS and 'Other'; the counts sum to the number of records.
C4_FirstMatchingCluster ==
  cl_pc = "done" =>
    LET conn == cl_mode = "connections"
        defs == IF conn THEN CLUSTER_DEFINITIONS ELSE INDUSTRY_KEYWORDS
        other == IF conn THEN "Other / Unclassified" ELSE "Other"
        textOf(r) == IF conn THEN r.position ELSE r.company
        memberOf(r) == IF conn THEN r ELSE r.company
        claimed(name) ==
          LET idx == {i \in DOMAIN cl_records :
                        ClaimedCluster(defs, textOf(cl_records[i]), other) = name}
              pick(r) == r.id \in idx
              chosen == SelectSeq(cl_records, pick)
          IN  [j \in DOMAIN chosen |-> memberOf(chosen[j])]
    IN  /\ \A i \in DOMAIN cl_records :
             \E b \in DOMAIN cl_results :
               cl_results[b].name =
                 ClaimedCluster(defs, textOf(cl_records[i]), other)
        /\ \A b, c \in DOMAIN cl_results :
             cl_results[b].name = cl_results[c].name => b = c
        /\ \A b \in DOMAIN cl_results :
             /\ cl_results[b].members = claimed(cl_results[b].name)
             /\ cl_results[b].count = Len(cl_results[b].members)
        /\ SumCounts(cl_results) = Len(cl_records)

\* A 'VP Sales' (Sales & BD before Executive Leadership) next to an
\* unclassified connection, each in its cluster
C4_Witness ==
  /\ cl_pc = "done"
  /\ cl_mode = "connections"
  /\ Len(cl_records) = 3
  /\ \E b, c \in DOMAIN cl_results :
       /\ cl_results[b].name = "Sales & BD"
       /\ cl_results[c].name = "Other / Unclassified"
       /\ cl_results[c].count = 2

(***************************************************************************)
(* parse_export.py: parse_date.  A datetime is the tuple                   *)
(* <<year, month, day, hour, minute, second>>.                             *)
(***************************************************************************)

\* Python's None, where a str or a datetime is optional
None == <<"None">>

\* What a call that raised ValueError leaves instead of a value
ValueError == <<"raise", "ValueError">>

\* The number of characters from position pos on that satisfy P, up to the
\* first that does not: what a greedy \d+, \s+ or \w+ consumes
RunLen(P(_), s, pos) ==
  LET stops == {i \in pos..Len(s) : ~P(s[i])}
  IN  IF stops = {} THEN Len(s) - pos + 1
      ELSE (CHOOSE i \in stops : \A j \in stops : i <= j) - pos

\* _RE_DMY = ^\d{1,2}\s+\w{3}\s+\d{4}$ on a stripped string (\w on ASCII:
\* letters, digits and the underscore)
RE_DMY(s) ==
  LET IsWord(c) ==
        IsDigit(c) \/ Ord[c] \in 65..90 \/ Ord[c] \in 97..122 \/ c = "_"
      d  == RunLen(IsDigit, s, 1)
      w1 == RunLen(IsSpace, s, d + 1)
      p  == d + w1 + 1
      w2 == RunLen(IsSpace, s, p + 3)
      q  == p + 3 + w2
  IN  /\ d \in 1..2
      /\ w1 >= 1
      /\ RunLen(IsWord, s, p) = 3
      /\ w2 >= 1
      /\ RunLen(IsDigit, s, q) = 4
      /\ q + 3 = Len(s)

\* _RE_ISO = ^\d{4}-\d{2}-\d{2}: a prefix, whatever follows
RE_ISO(s) ==
  /\ Len(s) >= 10
  /\ \A i \in {1, 2, 3, 4, 6, 7, 9, 10} : IsDigit(s[i])
  /\ s[5] = "-" /\ s[8] = "-"

\* str.replace(old, new): every occurrence, left to right; the characters
\* of an occurrence are skipped
Replace(s, old, new) ==
  LET Step(st, i) ==
        IF st.skip > 0 THEN [st EXCEPT !.skip = @ - 1]
        ELSE IF OccursAt(old, s, i)
          THEN [out |-> st.out \o new, skip |-> Len(old) - 1]
          ELSE [out |-> Append(st.out, s[i]), skip |-> 0]
  IN  FoldRange(Step, [out |-> <<>>, skip |-> 0], 1, Len(s)).out

\* The month abbreviations %b accepts (C locale), compared ignoring case
MONTH_ABBR ==
  << <<"j","a","n">>, <<"f","e","b">>, <<"m","a","r">>, <<"a","p","r">>,
     <<"m","a","y">>, <<"j","u","n">>, <<"j","u","l">>, <<"a","u","g">>,
     <<"s","e","p">>, <<"o","c","t">>, <<"n","o","v">>, <<"d","e","c">> >>

\* The formats parse_date hands to strptime, one token per directive or
\* literal character: "%d %b %Y", "%Y-%m-%d %H:%M:%S", "%Y-%m-%d"
DATE_FORMATS ==
  [dmy      |-> <<"d", " ", "b", " ", "Y">>,
   iso_time |-> <<"Y", "-", "m", "-", "d", " ", "H", ":", "M", ":", "S">>,
   iso_date |-> <<"Y", "-", "m", "-", "d">>]

\* The decimal value of the len digits of s from position pos on
RECURSIVE NumberAt(_, _, _)
NumberAt(s, pos, len) ==
  IF len = 0 THEN 0
  ELSE 10 * NumberAt(s, pos, len - 1) + (Ord[s[pos + len - 1]] - 48)

\* _strptime's regular expression for the format, matched from the start
\* of s, one token of the format after the other: a blank of the format is
\* \s+, %d is 3[0-1]|[1-2]\d|0[1-9]|[1-9], %m is 1[0-2]|0[1-9]|[1-9], %H is
\* 2[0-3]|[0-1]\d|\d, %M is [0-5]\d|\d, %S is 6[0-1]|[0-5]\d|\d, %Y is
\* \d\d\d\d, %b a month abbreviation.  The two-digit alternative comes
\* first; the formats go on after a number with a character that is no
\* digit, so the expression never comes back to take the shorter one.  (The
\* " [1-9]" alternative of %d needs a blank where _RE_DMY and _RE_ISO want
\* a digit.)  The result is [ok, pos, f]: whether the expression matched,
\* the position after the match, the value of every directive.
MatchFormat(fmt, s) ==
  LET Lo == [d |-> 1, m |-> 1, H |-> 0, M |-> 0, S |-> 0, Y |-> 0]
      Hi == [d |-> 31, m |-> 12, H |-> 23, M |-> 59, S |-> 61, Y |-> 9999]
      Step(st, k) ==
        LET t == fmt[k]
            IsField(len) ==
              /\ st.pos + len - 1 <= Len(s)
              /\ \A i \in st.pos..(st.pos + len - 1) : IsDigit(s[i])
              /\ NumberAt(s, st.pos, len) \in Lo[t]..Hi[t]
            len == IF t = "Y" THEN 4 ELSE IF IsField(2) THEN 2 ELSE 1
            months == {m \in DOMAIN MONTH_ABBR :
                         /\ st.pos + 2 <= Len(s)
                         /\ Lower(SubSeq(s, st.pos, st.pos + 2)) = MONTH_ABBR[m]}
            fail == [st EXCEPT !.ok = FALSE]
        IN  IF ~st.ok THEN st
            ELSE IF t = " "
              THEN IF RunLen(IsSpace, s, st.pos) >= 1
                     THEN [st EXCEPT !.pos = @ + RunLen(IsSpace, s, st.pos)]
                     ELSE fail
            ELSE IF t \in {"-", ":"}
              THEN IF st.pos <= Len(s) /\ s[st.pos] = t
                     THEN [st EXCEPT !.pos = @ + 1]
                     ELSE fail
            ELSE IF t = "b"
              THEN IF months # {}
                     THEN [st EXCEPT !.pos = @ + 3,
                                     !.f = ("m" :> CHOOSE m \in months : TRUE) @@ @]
                     ELSE fail
            ELSE IF IsField(len)
              THEN [st EXCEPT !.pos = @ + len,
                              !.f = (t :> NumberAt(s, st.pos, len)) @@ @]
              ELSE fail
  IN  FoldRange(Step, [ok |-> TRUE, pos |-> 1, f |-> <<>>], 1, Len(fmt))

\* datetime.strptime(s, fmt): the expression must match, nothing may remain
\* after the match ("unconverted data remains"), and the fields must be a
\* date the datetime constructor accepts (year 1.., a day the month has,
\* second 0..59); the fields the format lacks are 0
Strptime(s, fmt) ==
  LET Datetime(r) ==
        LET Get(k) == IF k \in DOMAIN r.f THEN r.f[k] ELSE 0
            leap == Get("Y") % 4 = 0
                      /\ (Get("Y") % 100 # 0 \/ Get("Y") % 400 = 0)
            days == IF Get("m") = 2 THEN (IF leap THEN 29 ELSE 28)
                    ELSE IF Get("m") \in {4, 6, 9, 11} THEN 30 ELSE 31
        IN  IF /\ r.ok
               /\ r.pos = Len(s) + 1
               /\ Get("Y") >= 1
               /\ Get("d") <= days
               /\ Get("S") <= 59
              THEN <<Get("Y"), Get("m"), Get("d"), Get("H"), Get("M"), Get("S")>>
              ELSE ValueError
  IN  CHOOSE dt \in {Datetime(r) : r \in {MatchFormat(fmt, s)}} : TRUE

\* parse_date(raw): None for None and for blank input; the DD Mon YYYY
\* branch returns what strptime returns and the enclosing `except Exception`
\* turns a ValueError into the None of the last line; the ISO branch removes
\* " UTC" with str.replace and tries the two ISO formats in turn
ParseDate(raw) ==
  LET Parse(s, cleaned) ==
        IF s = <<>> THEN None
        ELSE IF RE_DMY(s)
          THEN IF Strptime(s, DATE_FORMATS.dmy) # ValueError
                 THEN Strptime(s, DATE_FORMATS.dmy)
                 ELSE None
        ELSE IF RE_ISO(s)
          THEN IF Strptime(cleaned, DATE_FORMATS.iso_time) # ValueError
                 THEN Strptime(cleaned, DATE_FORMATS.iso_time)
               ELSE IF Strptime(cleaned, DATE_FORMATS.iso_date) # ValueError
                 THEN Strptime(cleaned, DATE_FORMATS.iso_date)
               ELSE None
        ELSE None
  IN  IF raw = None THEN None
      ELSE CHOOSE dt \in
             UNION {{Parse(s, cleaned) :
                       cleaned \in {Strip(Replace(s, <<" ", "U", "T", "C">>, <<>>))}} :
                    s \in {Strip(raw)}} : TRUE

(***************************************************************************)
(* parse_date on strings written from chunks: a head and up to MaxChunks   *)
(* tails, and on None and blank input.                                     *)
(***************************************************************************)

\* How many tails follow the head
MaxChunks == 3

\* The text of each chunk; pd_chunks keeps the names, pd_raw the characters
DateChunks ==
  [head |->
     ("12" :> <<"1","2">> @@
      "1" :> <<"1">> @@
      "30" :> <<"3","0">> @@
      "99" :> <<"9","9">> @@
      "2024-01-12" :> <<"2","0","2","4","-","0","1","-","1","2">> @@
      "2023-02-29" :> <<"2","0","2","3","-","0","2","-","2","9">> @@
      "2024-13-45" :> <<"2","0","2","4","-","1","3","-","4","5">> @@
      "x" :> <<"x">>),
   tail |->
     (" Jan" :> <<" ","J","a","n">> @@
      "  feb" :> <<" "," ","f","e","b">> @@
      " Xyz" :> <<" ","X","y","z">> @@
      " 2024" :> <<" ","2","0","2","4">> @@
      " 08:30:45" :> <<" ","0","8",":","3","0",":","4","5">> @@
      " UTC" :> <<" ","U","T","C">> @@
      "T" :> <<"T">> @@
      " 25:61:61" :> <<" ","2","5",":","6","1",":","6","1">>)]

DateInit ==
  /\ pd_pc = "input"
  /\ pd_raw \in {None, <<>>, <<" ", "\t">>}
  /\ pd_chunks = <<>>
  /\ pd_result = None
  /\ Idle("date")

\* The caller's string starts with a head chunk, possibly padded with blanks
StartDate ==
  /\ pd_pc = "input"
  /\ pd_chunks = <<>>
  /\ \E h \in DOMAIN DateChunks.head, pad \in BOOLEAN :
       /\ pd_chunks' = <<h>>
       /\ pd_raw' = IF pad THEN <<" ">> \o DateChunks.head[h] \o <<"\n">>
                    ELSE DateChunks.head[h]
  /\ UNCHANGED <<pd_pc, pd_result>>
  /\ Frame("date")

\* ... and goes on with a tail chunk
AppendDateChunk ==
  /\ pd_pc = "input"
  /\ Len(pd_chunks) \in 1..MaxChunks
  /\ pd_raw[1] # " "
  /\ \E t \in DOMAIN DateChunks.tail :
       /\ pd_chunks' = Append(pd_chunks, t)
       /\ pd_raw' = pd_raw \o DateChunks.tail[t]
  /\ UNCHANGED <<pd_pc, pd_result>>
  /\ Frame("date")

\* result = parse_date(raw)
CallParseDate ==
  /\ pd_pc = "input"
  /\ pd_pc' = "done"
  /\ pd_result' = ParseDate(pd_raw)
  /\ UNCHANGED <<pd_raw, pd_chunks>>
  /\ Frame("date")

\* The chunk sequences that spell a valid date of one of the two grammars,
\* DD Mon YYYY and YYYY-MM-DD[ HH:MM:SS][ UTC], with the datetime each means
ValidDates ==
  [c \in {<<d, m, " 2024">> : d \in {"1", "12", "30"}, m \in {" Jan", "  feb"}}
           \ {<<"30", "  feb", " 2024">>} |->
     <<2024, IF c[2] = " Jan" THEN 1 ELSE 2,
       IF c[1] = "1" THEN 1 ELSE IF c[1] = "12" THEN 12 ELSE 30, 0, 0, 0>>]
  @@ (<<"2024-01-12">> :> <<2024, 1, 12, 0, 0, 0>>)
  @@ (<<"2024-01-12", " UTC">> :> <<2024, 1, 12, 0, 0, 0>>)
  @@ (<<"2024-01-12", " 08:30:45">> :> <<2024, 1, 12, 8, 30, 45>>)
  @@ (<<"2024-01-12", " 08:30:45", " UTC">> :> <<2024, 1, 12, 8, 30, 45>>)

\* parse_date never raises, and returns the datetime of every valid date
ParseDateTotal ==
  pd_pc = "done" =>
    /\ pd_result # ValueError
    /\ pd_chunks \in DOMAIN ValidDates => pd_result = ValidDates[pd_chunks]

\* C5: parse_date is total and strict: for None and every string it returns a
\* datetime or None, never raises, and every string that is not a valid date
\* of one of the two grammars (unknown month, day 99, an ISO date followed by
\* text other than " HH:MM:SS" / " UTC") yields None
C5_ParseDateTotalAndStrict ==
  pd_pc = "done" =>
    /\ pd_result # ValueError
    /\ pd_chunks \notin DOMAIN ValidDates => pd_result = None

(***************************************************************************)
(* parse_export.py: parse_connections, with the csv module's reader in the *)
(* default (excel, non-strict) dialect.  The double quote is the character *)
(* "<quote>"; "<eol>" is the end-of-line mark the reader processes after   *)
(* every line it is fed.                                                   *)
(***************************************************************************)

\* How many lines parse_connections skips: lines[3:] if len(lines) > 3
JUNK_LINES == 3

\* The columns parse_connections reads with row.get
CONNECTION_COLUMNS ==
  [first_name    |-> <<"F","i","r","s","t"," ","N","a","m","e">>,
   last_name     |-> <<"L","a","s","t"," ","N","a","m","e">>,
   company       |-> <<"C","o","m","p","a","n","y">>,
   position      |-> <<"P","o","s","i","t","i","o","n">>,
   connected_on  |-> <<"C","o","n","n","e","c","t","e","d"," ","O","n">>,
   email_address |-> <<"E","m","a","i","l"," ","A","d","d","r","e","s","s">>]

\* str.splitlines(keepends=True): a line ends after "\n", after "\r\n" and
\* after a lone "\r" (the other line boundaries are not in the alphabet)
RECURSIVE SplitLines(_)
SplitLines(text) ==
  IF text = <<>> THEN <<>>
  ELSE
    LET ends == {i \in DOMAIN text :
                   \/ text[i] = "\n"
                   \/ text[i] = "\r" /\ (i = Len(text) \/ text[i + 1] # "\n")}
        e == IF ends = {} THEN Len(text)
             ELSE CHOOSE i \in ends : \A j \in ends : i <= j
    IN  <<SubSeq(text, 1, e)>> \o SplitLines(SubSeq(text, e + 1, Len(text)))

\* The variant of CsvText that skips one line less
CsvTextSkipTwo(lines) ==
  LET RECURSIVE Join(_)
      Join(ls) == IF ls = <<>> THEN <<>> ELSE Head(ls) \o Join(Tail(ls))
  IN  IF Len(lines) > JUNK_LINES - 1
        THEN Join(SubSeq(lines, JUNK_LINES, Len(lines)))
        ELSE Join(lines)

\* csv_text = "".join(lines[3:]) if len(lines) > 3 else "".join(lines)
CsvText(lines) ==
  LET RECURSIVE Join(_)
      Join(ls) == IF ls = <<>> THEN <<>> ELSE Head(ls) \o Join(Tail(ls))
  IN  IF Len(lines) > JUNK_LINES
        THEN Join(SubSeq(lines, JUNK_LINES + 1, Len(lines)))
        ELSE Join(lines)

\* One step of the reader's state machine (parse_process_char of _csv.c) on
\* the character c: st is [state, field, row, rows]
CsvProcess(st, c) ==
  LET newline == c \in {"\n", "\r"}
      after == IF c = "<eol>" THEN "START_RECORD" ELSE "EAT_CRNL"
      Save(state) ==
        [st EXCEPT !.state = state, !.row = Append(@, st.field), !.field = <<>>]
      Add(state) == [st EXCEPT !.state = state, !.field = Append(@, c)]
      To(state) == [st EXCEPT !.state = state]
      StartField ==
        IF newline \/ c = "<eol>" THEN Save(after)
        ELSE IF c = "<quote>" THEN To("IN_QUOTED_FIELD")
        ELSE IF c = "," THEN Save("START_FIELD")
        ELSE Add("IN_FIELD")
  IN  CASE st.state = "START_RECORD" ->
             IF c = "<eol>" THEN st
             ELSE IF newline THEN To("EAT_CRNL")
             ELSE StartField
        [] st.state = "START_FIELD" -> StartField
        [] st.state = "IN_FIELD" ->
             IF newline \/ c = "<eol>" THEN Save(after)
             ELSE IF c = "," THEN Save("START_FIELD")
             ELSE Add("IN_FIELD")
        [] st.state = "IN_QUOTED_FIELD" ->
             IF c = "<eol>" THEN st
             ELSE IF c = "<quote>" THEN To("QUOTE_IN_QUOTED_FIELD")
             ELSE Add("IN_QUOTED_FIELD")
        [] st.state = "QUOTE_IN_QUOTED_FIELD" ->
             IF c = "<quote>" THEN Add("IN_QUOTED_FIELD")
             ELSE IF c = "," THEN Save("START_FIELD")
             ELSE IF newline \/ c = "<eol>" THEN Save(after)
             ELSE Add("IN_FIELD")
        [] st.state = "EAT_CRNL" ->
             IF newline THEN st
             ELSE IF c = "<eol>" THEN To("START_RECORD")
             ELSE To("Error")
        [] OTHER -> st

\* list(csv.reader(StringIO(text))): the reader is fed the lines of the
\* StringIO (they end at "\n"), processes the end-of-line mark after each,
\* and returns a row whenever that leaves it in START_RECORD; at the end of
\* the input a pending field is saved and the row returned; a csv.Error ends
\* the iteration with the rows read so far
CsvReader(text) ==
  LET Emit(st) == [st EXCEPT !.rows = Append(@, st.row), !.row = <<>>]
      EndLine(st) ==
        LET s == CsvProcess(st, "<eol>")
        IN  IF s.state = "START_RECORD" THEN Emit(s) ELSE s
      Step(st, i) ==
        IF st.state = "Error" THEN st
        ELSE LET s == CsvProcess(st, text[i])
             IN  IF text[i] = "\n" THEN EndLine(s) ELSE s
      fed == FoldRange(Step, [state |-> "START_RECORD", field |-> <<>>,
                              row |-> <<>>, rows |-> <<>>], 1, Len(text))
      last == IF text # <<>> /\ text[Len(text)] # "\n" /\ fed.state # "Error"
                THEN EndLine(fed) ELSE fed
  IN  IF last.state # "Error"
           /\ (last.field # <<>> \/ last.state = "IN_QUOTED_FIELD")
        THEN Append(last.rows, Append(last.row, last.field))
        ELSE last.rows

\* The body of parse_connections' loop over csv.DictReader, on the rows of
\* the reader: DictReader takes the first row as the field names and skips
\* the empty rows after it; row.get(name) is None where the row is too short
\* or the column is missing (with a repeated column name the last one
\* counts); _safe_strip and parse_date make the record
ConnectionRecords(rows) ==
  LET Get(row, name) ==
        LET ks == {k \in DOMAIN Head(rows) :
                     k <= Len(row) /\ Head(rows)[k] = name}
        IN  IF ks = {} THEN None
            ELSE row[CHOOSE k \in ks : \A j \in ks : j <= k]
      SafeStrip(v) == IF v = None \/ v = <<>> THEN <<>> ELSE Strip(v)
      Record(row) ==
        [first_name |-> SafeStrip(Get(row, CONNECTION_COLUMNS.first_name)),
         last_name |-> SafeStrip(Get(row, CONNECTION_COLUMNS.last_name)),
         company |-> SafeStrip(Get(row, CONNECTION_COLUMNS.company)),
         position |-> SafeStrip(Get(row, CONNECTION_COLUMNS.position)),
         connected_on |-> ParseDate(Get(row, CONNECTION_COLUMNS.connected_on)),
         email_address |-> SafeStrip(Get(row, CONNECTION_COLUMNS.email_address))]
      data == SelectSeq(Tail(rows), LAMBDA row : row # <<>>)
  IN  IF rows = <<>> THEN <<>> ELSE [i \in DOMAIN data |-> Record(data[i])]

(***************************************************************************)
(* parse_connections on files written line by line: JUNK_LINES junk lines, *)
(* the header row, up to MaxRows data lines.                               *)
(***************************************************************************)

\* How many data lines follow the header
MaxRows == 2

\* The junk lines a file can start with: a note, a blank line, a line that
\* looks like a record
JunkLines ==
  [notes  |-> <<"N","o","t","e","s",":">>,
   blank  |-> <<>>,
   record |-> <<"Z","e","d",",","Z","u",",",",","z","@","z",".","i","o",",","Z","e","t","a",",","C","T","O",",","1"," ","J","a","n"," ","2","0","2","0">>]

\* The header row of LinkedIn's Connections.csv
HeaderLine ==
  CONNECTION_COLUMNS.first_name \o <<",">> \o CONNECTION_COLUMNS.last_name
    \o <<",", "U", "R", "L", ",">> \o CONNECTION_COLUMNS.email_address
    \o <<",">> \o CONNECTION_COLUMNS.company \o <<",">>
    \o CONNECTION_COLUMNS.position \o <<",">> \o CONNECTION_COLUMNS.connected_on

\* The data lines and the records each stands for: a full row, a row with
\* padded, empty and quoted fields (a comma and a line break inside quotes),
\* a row that ends early, a blank line
DataLines ==
  [full |->
     [text |-> <<"A","n","n","a",",","L","e","e",",","u",",","a","@","x",".","i","o",",","A","c","m","e",",","C","E","O",",","1","2"," ","J","a","n"," ","2","0","2","4">>,
      records |-> <<[first_name |-> <<"A","n","n","a">>, last_name |-> <<"L","e","e">>, company |-> <<"A","c","m","e">>,
          position |-> <<"C","E","O">>, connected_on |-> <<2024, 1, 12, 0, 0, 0>>,
          email_address |-> <<"a","@","x",".","i","o">>]>>],
   quoted |->
     [text |-> <<" ","B","o","b"," ",",","R","a","y",",",",",",","<quote>","G","l","o","w",","," ","I","n","c",".","<quote>",",","<quote>","V","P","\n","S","a","l","e","s","<quote>",",","2","0","2","4","-","0","1","-","1","2">>,
      records |-> <<[first_name |-> <<"B","o","b">>, last_name |-> <<"R","a","y">>, company |-> <<"G","l","o","w",","," ","I","n","c",".">>,
          position |-> <<"V","P","\n","S","a","l","e","s">>, connected_on |-> <<2024, 1, 12, 0, 0, 0>>,
          email_address |-> <<>>]>>],
   short |->
     [text |-> <<"C","y",",","M","o","e">>,
      records |-> <<[first_name |-> <<"C","y">>, last_name |-> <<"M","o","e">>, company |-> <<>>,
          position |-> <<>>, connected_on |-> None,
          email_address |-> <<>>]>>],
   blank |->
     [text |-> <<>>,
      records |-> <<>>]]

CsvInit ==
  /\ cv_pc = "write"
  /\ cv_eol \in {<<"\n">>, <<"\r", "\n">>}
  /\ cv_file = <<>>
  /\ cv_lines = <<>>
  /\ cv_expected = <<>>
  /\ cv_results = <<>>
  /\ Idle("csv")

\* The export starts with a junk line
WriteJunkLine ==
  /\ cv_pc = "write"
  /\ Len(cv_lines) < JUNK_LINES
  /\ \E j \in DOMAIN JunkLines :
       /\ cv_file' = cv_file \o JunkLines[j] \o cv_eol
       /\ cv_lines' = Append(cv_lines, j)
  /\ UNCHANGED <<cv_pc, cv_eol, cv_expected, cv_results>>
  /\ Frame("csv")

\* ... goes on with the header row (the last line of a file may lack its
\* line end)
WriteHeader ==
  /\ cv_pc = "write"
  /\ Len(cv_lines) = JUNK_LINES
  /\ \E ended \in BOOLEAN :
       /\ cv_file' = cv_file \o HeaderLine \o (IF ended THEN cv_eol ELSE <<>>)
       /\ cv_pc' = IF ended THEN "write" ELSE "closed"
  /\ cv_lines' = Append(cv_lines, "header")
  /\ UNCHANGED <<cv_eol, cv_expected, cv_results>>
  /\ Frame("csv")

\* ... and with the data lines
WriteRow ==
  /\ cv_pc = "write"
  /\ Len(cv_lines) \in (JUNK_LINES + 1)..(JUNK_LINES + MaxRows)
  /\ \E r \in DOMAIN DataLines, ended \in BOOLEAN :
       /\ cv_file' = cv_file \o DataLines[r].text
                       \o (IF ended THEN cv_eol ELSE <<>>)
       /\ cv_pc' = IF ended THEN "write" ELSE "closed"
       /\ cv_lines' = Append(cv_lines, r)
       /\ cv_expected' = cv_expected \o DataLines[r].records
  /\ UNCHANGED <<cv_eol, cv_results>>
  /\ Frame("csv")

\* results = parse_connections(path): read_text decodes the file and
\* translates "\r\n" and "\r" to "\n"; the lines after the junk lines are
\* joined again and read as CSV
CallParseConnections ==
  /\ cv_pc \in {"write", "closed"}
  /\ cv_pc' = "done"
  /\ \E text \in {Replace(Replace(cv_file, <<"\r", "\n">>, <<"\n">>),
                           <<"\r">>, <<"\n">>)} :
       \E csv_text \in {CsvText(SplitLines(text))} :
         \E rows \in {CsvReader(csv_text)} :
           cv_results' = ConnectionRecords(rows)
  /\ UNCHANGED <<cv_eol, cv_file, cv_lines, cv_expected>>
  /\ Frame("csv")

BadLines ==
  [unclosed |-> <<"D","e","e",",","<quote>","F","o","x",",","u",",","d","@","x",".","i","o">>]

\* ... a malformed data line is written (it stands for no record)
WriteBadRow ==
  /\ cv_pc = "write"
  /\ Len(cv_lines) \in (JUNK_LINES + 1)..(JUNK_LINES + MaxRows)
  /\ \E r \in DOMAIN BadLines, ended \in BOOLEAN :
       /\ cv_file' = cv_file \o BadLines[r] \o (IF ended THEN cv_eol ELSE <<>>)
       /\ cv_pc' = IF ended THEN "write" ELSE "closed"
       /\ cv_lines' = Append(cv_lines, r)
  /\ UNCHANGED <<cv_eol, cv_expected, cv_results>>
  /\ Frame("csv")

\* The records of the data lines before the first malformed line
RecordsBeforeBadRow ==
  LET bad == {i \in DOMAIN cv_lines : cv_lines[i] \in DOMAIN BadLines}
      first == CHOOSE i \in bad : \A j \in bad : i <= j
      Records(i) == IF i <= JUNK_LINES + 1 THEN <<>>
                    ELSE DataLines[cv_lines[i]].records
      RECURSIVE Upto(_)
      Upto(i) == IF i = 0 THEN <<>> ELSE Upto(i - 1) \o Records(i)
  IN  Upto(first - 1)

\* C18: a malformed CSV row is skipped by parse_connections while the
\* other rows are returned (the half of the claim about generate_individual
\* is PagesSkipFailures)
C18_MalformedRowSkipped ==
  (/\ cv_pc = "done"
   /\ Len(cv_lines) > JUNK_LINES
   /\ \E i \in DOMAIN cv_lines : cv_lines[i] \in DOMAIN BadLines)
    => cv_results = cv_expected

\* What of C18 the code keeps: the rows before the malformed one are
\* returned, and one more record, made of the malformed row and every line
\* after it
RowsBeforeMalformedReturned ==
  (/\ cv_pc = "done"
   /\ Len(cv_lines) > JUNK_LINES
   /\ \E i \in DOMAIN cv_lines : cv_lines[i] \in DOMAIN BadLines)
    => /\ Len(cv_results) = Len(RecordsBeforeBadRow) + 1
       /\ SubSeq(cv_results, 1, Len(RecordsBeforeBadRow)) = RecordsBeforeBadRow

(***************************************************************************)
(* parse_all: the six parsers on the files of an export folder.            *)
(***************************************************************************)

\* The file names each kind of export is looked for under, in order
FILE_MAP ==
  [connections |-> <<"Connections.csv", "connections.csv">>,
   messages |-> <<"messages.csv", "Messages.csv">>,
   invitations |-> <<"Invitations.csv", "invitations.csv",
                     "Sent Invitations.csv">>,
   company_follows |-> <<"Company Follows.csv", "Company_Follows.csv",
                         "company_follows.csv">>,
   inferences |-> <<"Inferences_about_you.csv", "Inferences.csv",
                    "inferences.csv">>,
   ad_targeting |-> <<"Ad_Targeting.csv", "Ad Targeting.csv",
                      "ad_targeting.csv">>]

\* A list of records and a dict of lists, by their items and keys
PyList(items) == [type |-> "list", items |-> items]
PyDict(keys) == [type |-> "dict", items |-> keys]

\* _find_file: the first candidate that exists in the folder, as <<name>>,
\* or <<>> for None
FindFile(files, candidates) ==
  LET found == {i \in DOMAIN candidates : candidates[i] \in DOMAIN files}
  IN  IF found = {} THEN <<>>
      ELSE <<candidates[CHOOSE i \in found : \A j \in found : i <= j]>>

\* parse_connections, ..., parse_ad_targeting on a path: nothing when the
\* path does not exist; otherwise the records of the file's rows (the
\* columns of its first row for parse_ad_targeting)
ParseFile(key, files, path) ==
  IF path \notin DOMAIN files
    THEN (IF key = "ad_targeting" THEN PyDict(<<>>) ELSE PyList(<<>>))
  ELSE IF key = "ad_targeting"
    THEN PyDict(IF files[path] = "rows" THEN <<path>> ELSE <<>>)
  ELSE PyList(IF files[path] = "rows" THEN <<[row_of |-> path]>> ELSE <<>>)

ParseAllFoundOnly(folder) ==
  IF ~folder.is_dir THEN [key \in {} |-> PyList(<<>>)]
  ELSE [key \in {k \in DOMAIN FILE_MAP :
                   FindFile(folder.files, FILE_MAP[k]) # <<>>} |->
          ParseFile(key, folder.files,
                    FindFile(folder.files, FILE_MAP[key])[1])]

\* parse_all(folder_path): an empty dict when the folder is no directory;
\* otherwise every key, from the parser of the file found or empty
ParseAll(folder) ==
  IF ~folder.is_dir THEN [key \in {} |-> PyList(<<>>)]
  ELSE [key \in DOMAIN FILE_MAP |->
          LET p == FindFile(folder.files, FILE_MAP[key])
          IN  IF p # <<>> THEN ParseFile(key, folder.files, p[1])
              ELSE IF key = "ad_targeting" THEN PyDict(<<>>)
              ELSE PyList(<<>>)]

\* How many export files the folder holds
MaxFiles == 2

ExportInit ==
  /\ ex_pc = "folder"
  /\ ex_folder \in [is_dir : BOOLEAN, files : {<<>>}]
  /\ ex_call = <<>>
  /\ ex_data = <<>>
  /\ Idle("export")

\* An export file is in the folder, with data rows or without
AddExportFile ==
  /\ ex_pc = "folder"
  /\ ex_folder.is_dir
  /\ Cardinality(DOMAIN ex_folder.files) < MaxFiles
  /\ \E key \in DOMAIN FILE_MAP :
       \E i \in DOMAIN FILE_MAP[key], holds \in {"rows", "header"} :
         /\ FILE_MAP[key][i] \notin DOMAIN ex_folder.files
         /\ ex_folder' = [ex_folder EXCEPT
                            !.files = (FILE_MAP[key][i] :> holds) @@ @]
  /\ UNCHANGED <<ex_pc, ex_call, ex_data>>
  /\ Frame("export")

\* data = parse_<key>(folder / name)
CallParser ==
  /\ ex_pc = "folder"
  /\ ex_pc' = "parsed"
  /\ \E key \in DOMAIN FILE_MAP :
       \E i \in DOMAIN FILE_MAP[key] :
         /\ ex_call' = [parser |-> key, path |-> FILE_MAP[key][i]]
         /\ ex_data' = ParseFile(key, ex_folder.files, FILE_MAP[key][i])
  /\ UNCHANGED ex_folder
  /\ Frame("export")

\* data = parse_all(folder)
CallParseAll ==
  /\ ex_pc = "folder"
  /\ ex_pc' = "all"
  /\ ex_call' = [parser |-> "all", path |-> "."]
  /\ ex_data' = ParseAll(ex_folder)
  /\ UNCHANGED ex_folder
  /\ Frame("export")

\* C19: a parser whose file does not exist returns an empty list
\* (parse_ad_targeting an empty dict), and parse_all on an existing folder
\* returns all six keys, those of the missing files empty
C19_MissingYieldsEmpty ==
  /\ (ex_pc = "parsed" /\ ex_call.path \notin DOMAIN ex_folder.files)
       => ex_data = IF ex_call.parser = "ad_targeting" THEN PyDict(<<>>)
                    ELSE PyList(<<>>)
  /\ (ex_pc = "all" /\ ex_folder.is_dir)
       => /\ DOMAIN ex_data = {"connections", "messages", "invitations",
                               "company_follows", "inferences", "ad_targeting"}
          /\ \A key \in DOMAIN FILE_MAP :
               (\A i \in DOMAIN FILE_MAP[key] :
                  FILE_MAP[key][i] \notin DOMAIN ex_folder.files)
                 => ex_data[key] = IF key = "ad_targeting" THEN PyDict(<<>>)
                                   ELSE PyList(<<>>)

\* C19 witness: parse_all on a folder with connections.csv and
\* Messages.csv only, both with rows: their records under two keys, and
\* the other four keys empty
C19_Witness ==
  /\ ex_pc = "all"
  /\ DOMAIN ex_folder.files = {"connections.csv", "Messages.csv"}
  /\ ex_data.connections = PyList(<<[row_of |-> "connections.csv"]>>)
  /\ ex_data.messages = PyList(<<[row_of |-> "Messages.csv"]>>)
  /\ ex_data.invitations = PyList(<<>>)
  /\ ex_data.ad_targeting = PyDict(<<>>)

(***************************************************************************)
(* analyze.py: score_messages.  A datetime is the 6-tuple of parse_date, a *)
(* date that is still a str is the pair <<"str", characters>>.             *)
(***************************************************************************)

\* _TIER_THRESHOLDS
TIER_THRESHOLDS ==
  <<[tier |-> "Active", threshold |-> 30],
    [tier |-> "Some Contact", threshold |-> 90],
    [tier |-> "Going Stale", threshold |-> 180],
    [tier |-> "Dormant", threshold |-> 365]>>

\* The variant of TierOf that compares with < instead of <=
TierOfExclusive(days_ago) ==
  LET below == {k \in DOMAIN TIER_THRESHOLDS :
                  days_ago < TIER_THRESHOLDS[k].threshold}
  IN  IF below = {} THEN "Deep Sleep"
      ELSE TIER_THRESHOLDS[CHOOSE k \in below : \A j \in below : k <= j].tier

\* tier = "Deep Sleep", then the first tier of _TIER_THRESHOLDS with
\* days_ago <= threshold
TierOf(days_ago) ==
  LET below == {k \in DOMAIN TIER_THRESHOLDS :
                  days_ago <= TIER_THRESHOLDS[k].threshold}
  IN  IF below = {} THEN "Deep Sleep"
      ELSE TIER_THRESHOLDS[CHOOSE k \in below : \A j \in below : k <= j].tier

\* (now - last).days: the difference of the dates' ordinals (toordinal)
\* and, where the time of day of `last` is the later one, a day less
DaysBetween(now, last) ==
  LET Ordinal(dt) ==
        LET y == dt[1] - 1
            leap == dt[1] % 4 = 0 /\ (dt[1] % 100 # 0 \/ dt[1] % 400 = 0)
            before == <<0, 31, 59, 90, 120, 151, 181, 212, 243, 273, 304, 334>>
        IN  y * 365 + y \div 4 - y \div 100 + y \div 400 + before[dt[2]]
              + (IF dt[2] > 2 /\ leap THEN 1 ELSE 0) + dt[3]
      Second(dt) == dt[4] * 3600 + dt[5] * 60 + dt[6]
  IN  Ordinal(now) - Ordinal(last) + (Second(now) - Second(last)) \div 86400

\* The variant of Overwrites that lets every dated message overwrite
OverwritesAlways(name_to_last_msg, sender, msg_date) == TRUE

\* sender not in name_to_last_msg or msg_date > name_to_last_msg[sender]
\* (datetimes compare field by field, the year first)
Overwrites(name_to_last_msg, sender, msg_date) ==
  IF sender \notin DOMAIN name_to_last_msg THEN TRUE
  ELSE \E k \in 1..6 :
         /\ msg_date[k] > name_to_last_msg[sender][k]
         /\ \A j \in 1..(k - 1) : msg_date[j] = name_to_last_msg[sender][j]

\* score_messages(connections, messages) with datetime.now() = now: the
\* loop over the messages fills name_to_last_msg, the loop over the
\* connections looks each full name up and assigns the tier
ScoreMessages(connections, messages, now) ==
  LET Update(map, sender, date, msg_date) ==
        IF sender = <<>> \/ date = None \/ date = <<"str", <<>>>> THEN map
        ELSE IF msg_date # None /\ Overwrites(map, sender, msg_date)
          THEN (sender :> msg_date) @@ map
        ELSE map
      Step(map, i) ==
        CHOOSE m \in
          {Update(map, sender, messages[i].date, msg_date) :
             sender \in {IF messages[i].sender = None THEN <<>>
                         ELSE Lower(Strip(messages[i].sender))},
             msg_date \in {IF Len(messages[i].date) = 2
                             THEN ParseDate(messages[i].date[2])
                             ELSE messages[i].date}} : TRUE
      Enrich(conn, last_msg) ==
        [first_name |-> conn.first_name,
         last_name |-> conn.last_name,
         tier |-> IF last_msg = None THEN "Never Messaged"
                  ELSE TierOf(DaysBetween(now, last_msg)),
         last_message_date |-> last_msg]
      Enriched(name_to_last_msg) ==
        [c \in DOMAIN connections |->
           CHOOSE e \in
             {Enrich(connections[c],
                     IF full_name \in DOMAIN name_to_last_msg
                       THEN name_to_last_msg[full_name] ELSE None) :
                full_name \in {Lower(Strip(connections[c].first_name \o <<" ">>
                                              \o connections[c].last_name))}} :
             TRUE]
  IN  CHOOSE enriched \in
        {Enriched(name_to_last_msg) :
           name_to_last_msg \in {FoldRange(Step, <<>>, 1, Len(messages))}} :
        TRUE

(***************************************************************************)
(* score_messages on the connections SampleConnections and up to MaxMsgs   *)
(* messages, each with a sender and one of the dates of MessageDates.      *)
(***************************************************************************)

\* How many messages the inbox holds
MaxMsgs == 2

\* datetime.now() of the run
Now == <<2024, 3, 15, 12, 0, 0>>

\* The connections: a full name, an empty first name, a connection nobody
\* wrote to
SampleConnections ==
  <<[first_name |-> <<"A","n","n","a">>, last_name |-> <<"L","e","e">>],
    [first_name |-> <<>>, last_name |-> <<"L","e","e">>],
    [first_name |-> <<"B","o","b">>, last_name |-> <<"R","a","y">>]>>

\* The senders: two spellings of the first connection, the last name alone,
\* a stranger, no sender
SampleSenders ==
  {<<"A","n","n","a"," ","L","e","e">>, <<" "," ","A","N","N","A"," ","l","e","e"," ">>,
   <<"L","e","e">>, <<"Z","o","e"," ","F","o","x">>, None}

\* The dates a message can carry, with what each means: `at` the datetime,
\* `days` the whole days from it to Now, `age` the seconds from it to Now.
\* For every threshold T there is a date T days and 23:59:59 back
\* (withinT) and one T + 1 days back (pastT); text30 is a date still in
\* text form, garbage a text that is no date, none a missing date.
MessageDates ==
  [future |-> [date |-> <<2024, 3, 15, 13, 0, 0>>, at |-> <<2024, 3, 15, 13, 0, 0>>,
     days |-> -1, age |-> -3600],
   today |-> [date |-> <<2024, 3, 15, 11, 0, 0>>, at |-> <<2024, 3, 15, 11, 0, 0>>,
     days |-> 0, age |-> 3600],
   within30 |-> [date |-> <<2024, 2, 13, 12, 0, 1>>, at |-> <<2024, 2, 13, 12, 0, 1>>,
     days |-> 30, age |-> 2678399],
   past30 |-> [date |-> <<2024, 2, 13, 12, 0, 0>>, at |-> <<2024, 2, 13, 12, 0, 0>>,
     days |-> 31, age |-> 2678400],
   within90 |-> [date |-> <<2023, 12, 15, 12, 0, 1>>, at |-> <<2023, 12, 15, 12, 0, 1>>,
     days |-> 90, age |-> 7862399],
   past90 |-> [date |-> <<2023, 12, 15, 12, 0, 0>>, at |-> <<2023, 12, 15, 12, 0, 0>>,
     days |-> 91, age |-> 7862400],
   within180 |-> [date |-> <<2023, 9, 16, 12, 0, 1>>, at |-> <<2023, 9, 16, 12, 0, 1>>,
     days |-> 180, age |-> 15638399],
   past180 |-> [date |-> <<2023, 9, 16, 12, 0, 0>>, at |-> <<2023, 9, 16, 12, 0, 0>>,
     days |-> 181, age |-> 15638400],
   within365 |-> [date |-> <<2023, 3, 15, 12, 0, 1>>, at |-> <<2023, 3, 15, 12, 0, 1>>,
     days |-> 365, age |-> 31622399],
   past365 |-> [date |-> <<2023, 3, 15, 12, 0, 0>>, at |-> <<2023, 3, 15, 12, 0, 0>>,
     days |-> 366, age |-> 31622400],
   old |-> [date |-> <<2021, 6, 19, 12, 0, 0>>, at |-> <<2021, 6, 19, 12, 0, 0>>,
     days |-> 1000, age |-> 86400000],
   text30 |-> [date |-> <<"str", <<"2","0","2","4","-","0","2","-","1","4"," ","1","2",":","0","0",":","0","0">>>>,
     at |-> <<2024, 2, 14, 12, 0, 0>>, days |-> 30, age |-> 2592000],
   garbage |-> [date |-> <<"str", <<"s","o","o","n">>>>, at |-> None, days |-> 0, age |-> 0],
   none |-> [date |-> None, at |-> None, days |-> 0, age |-> 0]]

ScoreInit ==
  /\ sc_pc = "input"
  /\ sc_messages = <<>>
  /\ sc_enriched = <<>>
  /\ Idle("score")

\* The inbox gets one more message (the dates at the thresholds come with
\* the first sender's usual spelling)
AddMessage ==
  /\ sc_pc = "input"
  /\ Len(sc_messages) < MaxMsgs
  /\ \E s \in SampleSenders, d \in DOMAIN MessageDates :
       /\ s = <<"A","n","n","a"," ","L","e","e">>
            \/ d \in {"today", "past90", "none"}
       /\ sc_messages' =
            Append(sc_messages,
                   [sender |-> s, date |-> MessageDates[d].date, sent |-> d])
  /\ UNCHANGED <<sc_pc, sc_enriched>>
  /\ Frame("score")

\* enriched = score_messages(connections, messages)
CallScoreMessages ==
  /\ sc_pc = "input"
  /\ sc_pc' = "done"
  /\ sc_enriched' = ScoreMessages(SampleConnections, sc_messages, Now)
  /\ UNCHANGED sc_messages
  /\ Frame("score")

\* The tier the claim gives to d whole days
ClaimedTier(d) ==
  CASE d <= 30 -> "Active"
    [] d > 30 /\ d <= 90 -> "Some Contact"
    [] d > 90 /\ d <= 180 -> "Going Stale"
    [] d > 180 /\ d <= 365 -> "Dormant"
    [] d > 365 -> "Deep Sleep"

\* The dated messages whose sender, stripped and lower-cased, is key
MessagesFrom(key) ==
  {i \in DOMAIN sc_messages :
     /\ MessageDates[sc_messages[i].sent].at # None
     /\ sc_messages[i].sender # None
     /\ Lower(Strip(sc_messages[i].sender)) = key}

\* Connection c has the latest date of the messages from key as its
\* last_message_date, and is Never Messaged (date None) iff there is none
LastMessageIsLatest(c, key) ==
  LET from == MessagesFrom(key)
      latest == CHOOSE i \in from : \A j \in from :
                  MessageDates[sc_messages[i].sent].age
                    <= MessageDates[sc_messages[j].sent].age
  IN  /\ sc_enriched[c].last_message_date =
           IF from = {} THEN None ELSE MessageDates[sc_messages[latest].sent].at
      /\ sc_enriched[c].tier = "Never Messaged" <=> from = {}
      /\ sc_enriched[c].last_message_date = None <=> from = {}

\* C7: every connection with a matching message has the tier of the whole
\* days d from its last message to now: Active if d <= 30, Some Contact if
\* 30 < d <= 90, Going Stale if 90 < d <= 180, Dormant if 180 < d <= 365,
\* Deep Sleep if d > 365
C7_TierByDays ==
  sc_pc = "done" =>
    \A c \in DOMAIN sc_enriched :
      sc_enriched[c].last_message_date # None =>
        \E d \in DOMAIN MessageDates :
          /\ MessageDates[d].at = sc_enriched[c].last_message_date
          /\ sc_enriched[c].tier = ClaimedTier(MessageDates[d].days)

\* C7 witness: the first connection's last message is 30 days and 23:59:59
\* old (Active) although an older one, 91 days old, came later in the list
C7_Witness ==
  /\ sc_pc = "done"
  /\ Len(sc_messages) = 2
  /\ sc_messages[1].sent = "within30"
  /\ sc_messages[2].sent = "past90"
  /\ sc_messages[2].sender = sc_messages[1].sender
  /\ sc_enriched[1].tier = "Active"

FAKE_COMPANIES ==
  [dtc |->
     <<<<"L","u","m","i","n","a"," ","B","e","a","u","t","y">>,
       <<"W","o","v","e","n"," ","H","o","m","e">>,
       <<"C","e","d","a","r","s","t","o","n","e"," ","G","o","o","d","s">>,
       <<"V","e","l","v","e","t"," ","&"," ","V","i","n","e">>,
       <<"S","o","l","s","t","i","c","e"," ","S","k","i","n","c","a","r","e">>,
       <<"H","a","r","b","o","r"," ","+"," ","T","h","r","e","a","d">>,
       <<"C","r","e","s","t","l","i","n","e"," ","O","r","g","a","n","i","c","s">>,
       <<"W","i","l","d","b","l","o","o","m"," ","B","o","t","a","n","i","c","a","l","s">>,
       <<"D","u","s","k"," ","&"," ","C","o">>,
       <<"E","m","b","e","r"," ","&"," ","O","a","k">>,
       <<"R","a","d","i","a","n","t"," ","E","a","r","t","h">>,
       <<"M","o","o","n","s","t","o","n","e"," ","P","r","o","v","i","s","i","o","n","s">>,
       <<"P","e","t","a","l"," ","&"," ","P","o","s","t">>,
       <<"S","u","n","r","i","d","g","e"," ","E","s","s","e","n","t","i","a","l","s">>,
       <<"V","e","r","d","a","n","t"," ","L","i","v","i","n","g">>>>,
   tech |->
     <<<<"N","e","x","a","F","l","o","w">>,
       <<"P","r","i","s","m"," ","L","a","b","s">>,
       <<"V","e","r","t","e","x"," ","S","y","s","t","e","m","s">>,
       <<"A","r","c","a","n","e"," ","D","a","t","a">>,
       <<"H","e","l","i","x"," ","C","l","o","u","d">>,
       <<"Q","u","a","n","t","u","m"," ","L","e","a","p"," ","A","I">>,
       <<"C","o","b","a","l","t"," ","L","o","g","i","c">>,
       <<"M","e","r","i","d","i","a","n"," ","S","o","f","t","w","a","r","e">>,
       <<"S","t","r","a","t","o","s"," ","C","o","m","p","u","t","i","n","g">>,
       <<"V","a","n","g","u","a","r","d"," ","T","e","c","h">>,
       <<"Z","e","p","h","y","r"," ","D","y","n","a","m","i","c","s">>,
       <<"P","i","n","n","a","c","l","e"," ","D","i","g","i","t","a","l">>,
       <<"F","o","r","g","e"," ","A","n","a","l","y","t","i","c","s">>,
       <<"S","k","y","w","a","r","d"," ","P","l","a","t","f","o","r","m","s">>,
       <<"A","t","l","a","s"," ","I","n","t","e","l","l","i","g","e","n","c","e">>>>,
   martech |->
     <<<<"S","i","g","n","a","l","S","t","a","c","k">>,
       <<"E","n","g","a","g","i","f","y">>,
       <<"R","e","t","a","i","n","I","Q">>,
       <<"F","l","o","w","M","e","t","r","i","c","s">>,
       <<"P","u","l","s","e"," ","A","n","a","l","y","t","i","c","s">>,
       <<"B","e","a","c","o","n"," ","C","R","M">>,
       <<"O","r","b","i","t"," ","E","n","g","a","g","e">>,
       <<"T","r","i","g","g","e","r","P","a","t","h">>,
       <<"A","u","d","i","e","n","c","e"," ","L","a","b","s">>,
       <<"S","e","g","m","e","n","t"," ","P","r","o">>,
       <<"L","i","f","e","c","y","c","l","e"," ","A","I">>,
       <<"C","o","n","v","e","r","s","i","o","n"," ","C","l","o","u","d">>,
       <<"R","e","a","c","h"," ","E","n","g","i","n","e">>,
       <<"A","t","t","r","i","b","u","t","i","o","n"," ","W","o","r","k","s">>,
       <<"D","a","t","a","B","r","i","d","g","e">>>>,
   agency |->
     <<<<"K","i","n","d","l","i","n","g"," ","C","r","e","a","t","i","v","e">>,
       <<"N","o","r","t","h","s","t","a","r"," ","A","g","e","n","c","y">>,
       <<"B","r","i","g","h","t"," ","P","a","t","h"," ","M","e","d","i","a">>,
       <<"S","u","m","m","i","t"," ","S","t","r","a","t","e","g","y">>,
       <<"R","e","d","l","i","n","e"," ","D","i","g","i","t","a","l">>,
       <<"C","l","e","a","r"," ","S","i","g","n","a","l"," ","G","r","o","u","p">>,
       <<"H","o","r","i","z","o","n"," ","P","a","r","t","n","e","r","s">>,
       <<"C","a","t","a","l","y","s","t"," ","C","o","l","l","e","c","t","i","v","e">>,
       <<"S","p","a","r","k"," ","&"," ","F","r","a","m","e">>,
       <<"M","o","s","a","i","c"," ","A","g","e","n","c","y">>,
       <<"C","r","a","f","t"," ","&"," ","C","o","m","m","e","r","c","e">>,
       <<"B","l","u","e","p","r","i","n","t"," ","S","t","u","d","i","o">>>>,
   recruiting |->
     <<<<"T","a","l","e","n","t","F","o","r","g","e">>,
       <<"A","p","e","x"," ","R","e","c","r","u","i","t","i","n","g">>,
       <<"K","e","y","s","t","o","n","e"," ","S","e","a","r","c","h">>,
       <<"B","r","i","d","g","e","p","o","i","n","t"," ","T","a","l","e","n","t">>,
       <<"S","u","m","m","i","t"," ","S","t","a","f","f","i","n","g">>,
       <<"C","o","m","p","a","s","s"," ","C","a","r","e","e","r","s">>,
       <<"E","l","e","v","a","t","e"," ","R","e","c","r","u","i","t","i","n","g">>,
       <<"P","a","t","h","f","i","n","d","e","r"," ","H","R">>,
       <<"P","e","a","k","S","e","a","r","c","h">>,
       <<"C","a","t","a","l","y","s","t"," ","T","a","l","e","n","t"," ","G","r","o","u","p">>>>,
   finance |->
     <<<<"I","r","o","n","w","o","o","d"," ","C","a","p","i","t","a","l">>,
       <<"B","l","u","e","w","a","t","e","r"," ","V","e","n","t","u","r","e","s">>,
       <<"C","r","e","s","t","v","i","e","w"," ","P","a","r","t","n","e","r","s">>,
       <<"G","r","a","n","i","t","e"," ","E","q","u","i","t","y">>,
       <<"L","i","g","h","t","h","o","u","s","e"," ","F","u","n","d">>,
       <<"S","e","q","u","o","i","a"," ","R","i","d","g","e"," ","V","C">>,
       <<"S","t","e","r","l","i","n","g"," ","G","r","o","w","t","h">>,
       <<"T","i","m","b","e","r","l","i","n","e"," ","I","n","v","e","s","t","m","e","n","t","s">>,
       <<"A","p","e","x"," ","F","u","n","d">>,
       <<"F","o","u","n","d","r","y"," ","C","a","p","i","t","a","l">>>>,
   luxury |->
     <<<<"M","a","i","s","o","n"," ","L","u","m","i","e","r","e">>,
       <<"A","t","e","l","i","e","r","s"," ","d","u"," ","M","o","n","d","e">>,
       <<"P","r","e","s","t","i","g","e"," ","C","o","l","l","e","c","t","i","v","e">>,
       <<"N","o","i","r"," ","&"," ","B","l","a","n","c">>,
       <<"G","i","l","d","e","d"," ","P","a","t","h">>,
       <<"O","p","u","l","e","n","t"," ","&"," ","C","o">>>>,
   media |->
     <<<<"C","h","r","o","n","i","c","l","e"," ","M","e","d","i","a">>,
       <<"N","a","r","r","a","t","i","v","e"," ","L","a","b","s">>,
       <<"W","a","v","e","l","e","n","g","t","h"," ","P","u","b","l","i","s","h","i","n","g">>,
       <<"A","p","e","r","t","u","r","e"," ","C","o","n","t","e","n","t">>,
       <<"S","t","o","r","y","f","o","r","g","e">>,
       <<"C","u","r","r","e","n","t"," ","M","e","d","i","a"," ","G","r","o","u","p">>>>,
   other |->
     <<<<"G","r","e","e","n","f","i","e","l","d"," ","C","o","r","p">>,
       <<"R","i","d","g","e","l","i","n","e"," ","I","n","d","u","s","t","r","i","e","s">>,
       <<"C","o","r","n","e","r","s","t","o","n","e"," ","G","r","o","u","p">>,
       <<"I","r","o","n","s","i","d","e"," ","P","a","r","t","n","e","r","s">>,
       <<"B","r","i","d","g","e","w","a","t","e","r"," ","A","s","s","o","c","i","a","t","e","s">>,
       <<"C","l","e","a","r","v","i","e","w"," ","G","l","o","b","a","l">>,
       <<"A","s","p","e","n"," ","H","o","l","d","i","n","g","s">>,
       <<"P","i","n","n","a","c","l","e"," ","G","r","o","u","p">>,
       <<"S","u","m","m","i","t"," ","E","n","t","e","r","p","r","i","s","e","s">>,
       <<"V","a","n","t","a","g","e"," ","W","o","r","k","s">>,
       <<"N","e","x","u","s"," ","C","o","r","p">>,
       <<"H","o","r","i","z","o","n"," ","G","l","o","b","a","l">>>>]

\* _COMPANY_INDUSTRY_KEYWORDS, in the order of the dict
COMPANY_INDUSTRY_KEYWORDS ==
  <<[industry |-> "dtc", keywords |->
       <<<<"b","e","a","u","t","y">>,
         <<"s","k","i","n">>,
         <<"c","o","s","m","e","t","i","c">>,
         <<"f","a","s","h","i","o","n">>,
         <<"a","p","p","a","r","e","l">>,
         <<"c","l","o","t","h","i","n","g">>,
         <<"h","o","m","e">>,
         <<"f","o","o","d">>,
         <<"b","e","v","e","r","a","g","e">>,
         <<"w","e","l","l","n","e","s","s">>,
         <<"j","e","w","e","l","r","y">>,
         <<"l","i","f","e","s","t","y","l","e">>,
         <<"r","e","t","a","i","l">>,
         <<"b","r","a","n","d">>,
         <<"d","t","c">>,
         <<"d","2","c">>,
         <<"e","c","o","m","m","e","r","c","e">>>>],
    [industry |-> "tech", keywords |->
       <<<<"t","e","c","h">>,
         <<"t","e","c","h","n","o","l","o","g","y">>,
         <<"a","i">>,
         <<"c","l","o","u","d">>,
         <<"c","y","b","e","r">>,
         <<"f","i","n","t","e","c","h">>,
         <<"c","o","m","p","u","t","i","n","g">>,
         <<"d","i","g","i","t","a","l">>,
         <<"s","o","f","t","w","a","r","e">>,
         <<"p","l","a","t","f","o","r","m">>>>],
    [industry |-> "martech", keywords |->
       <<<<"k","l","a","v","i","y","o">>,
         <<"b","r","a","z","e">>,
         <<"s","h","o","p","i","f","y">>,
         <<"a","t","t","e","n","t","i","v","e">>,
         <<"y","o","t","p","o">>,
         <<"a","n","a","l","y","t","i","c","s">>,
         <<"d","a","t","a">>,
         <<"a","u","t","o","m","a","t","i","o","n">>,
         <<"c","r","m">>,
         <<"m","a","r","t","e","c","h">>,
         <<"s","a","a","s">>>>],
    [industry |-> "agency", keywords |->
       <<<<"a","g","e","n","c","y">>,
         <<"c","o","n","s","u","l","t","i","n","g">>,
         <<"s","e","r","v","i","c","e">>,
         <<"s","t","u","d","i","o">>,
         <<"c","r","e","a","t","i","v","e">>>>],
    [industry |-> "recruiting", keywords |->
       <<<<"r","e","c","r","u","i","t","i","n","g">>,
         <<"s","t","a","f","f","i","n","g">>,
         <<"t","a","l","e","n","t">>,
         <<"h","i","r","i","n","g">>,
         <<"w","o","r","k","f","o","r","c","e">>>>],
    [industry |-> "finance", keywords |->
       <<<<"v","e","n","t","u","r","e">>,
         <<"c","a","p","i","t","a","l">>,
         <<"i","n","v","e","s","t","m","e","n","t">>,
         <<"f","u","n","d">>,
         <<"f","i","n","a","n","c","e">>>>],
    [industry |-> "luxury", keywords |->
       <<<<"l","u","x","u","r","y">>,
         <<"p","r","e","m","i","u","m">>,
         <<"p","r","e","s","t","i","g","e">>,
         <<"d","e","s","i","g","n","e","r">>>>],
    [industry |-> "media", keywords |->
       <<<<"m","e","d","i","a">>,
         <<"p","u","b","l","i","s","h">>,
         <<"n","e","w","s">>,
         <<"c","o","n","t","e","n","t">>,
         <<"e","n","t","e","r","t","a","i","n","m","e","n","t">>>>]>>

\* _classify_company(name): the first industry with a keyword in the
\* lower-cased name, else "other"
ClassifyCompany(name) ==
  LET hits == {k \in DOMAIN COMPANY_INDUSTRY_KEYWORDS :
                 \E j \in DOMAIN COMPANY_INDUSTRY_KEYWORDS[k].keywords :
                   Contains(Lower(name), COMPANY_INDUSTRY_KEYWORDS[k].keywords[j])}
  IN  IF hits = {} THEN "other"
      ELSE COMPANY_INDUSTRY_KEYWORDS[CHOOSE k \in hits :
                                       \A j \in hits : k <= j].industry

\* The variant of PoolOf that takes the "other" pool for every industry
PoolOfOther(industry) == FAKE_COMPANIES.other

\* pool = FAKE_COMPANIES.get(industry, FAKE_COMPANIES["other"])
PoolOf(industry) ==
  IF industry \in DOMAIN FAKE_COMPANIES THEN FAKE_COMPANIES[industry]
  ELSE FAKE_COMPANIES.other

\* The variant of VariantName that leaves the number out
VariantNameBare(base, n) == base

\* fake_name = f"{base} ({len(used_fakes)})": the name a company gets once
\* every name of its pool is used
VariantName(base, n) == base \o <<" ", "(">> \o Digits(n) \o <<")">>

\* The loop of sanitize_companies over sorted(all_companies): st is
\* [company_map, used_fakes, industry_indices]; the first name of the pool
\* from the industry's index on that is not used yet, else the name at the
\* index with the number of used names in brackets
CompanyMap(all_companies) ==
  LET sorted == [i \in 1..Cardinality(all_companies) |->
                   CHOOSE x \in all_companies :
                     Cardinality({y \in all_companies : StrLess(y, x)}) = i - 1]
      Assign(st, real_name, industry, pool, idx) ==
        LET free == {offset \in 0..(Len(pool) - 1) :
                       pool[((idx + offset) % Len(pool)) + 1] \notin st.used_fakes}
            first == CHOOSE offset \in free : \A o \in free : offset <= o
            fake_name ==
              IF free # {} THEN pool[((idx + first) % Len(pool)) + 1]
              ELSE VariantName(pool[(idx % Len(pool)) + 1],
                               Cardinality(st.used_fakes))
        IN  [company_map |-> (real_name :> fake_name) @@ st.company_map,
             used_fakes |-> st.used_fakes \cup {fake_name},
             industry_indices |->
               (industry :> IF free # {} THEN (idx + first + 1) % Len(pool)
                            ELSE idx + 1) @@ st.industry_indices]
      Step(st, i) ==
        CHOOSE next \in
          {Assign(st, sorted[i], industry, PoolOf(industry),
                  IF industry \in DOMAIN st.industry_indices
                    THEN st.industry_indices[industry] ELSE 0) :
             industry \in {ClassifyCompany(sorted[i])}} : TRUE
  IN  FoldRange(Step, [company_map |-> <<>>, used_fakes |-> {},
                       industry_indices |-> <<>>],
                1, Cardinality(all_companies)).company_map

(***************************************************************************)
(* sanitize_companies on the companies of up to MaxCompanies records,      *)
(* connections and company follows in turn.                                *)
(***************************************************************************)

\* How many records carry a company
MaxCompanies == 8

\* The company names of the records: seven that _classify_company calls
\* luxury (a pool of six), a dtc name with and without padding, a name with
\* "ai" inside, a name without keyword, a blank name
SampleCompanies ==
  <<<<"L","u","x","u","r","y"," ","O","n","e">>,
    <<"L","u","x","u","r","y"," ","T","w","o">>,
    <<"P","r","e","m","i","u","m"," ","P","e","n","s">>,
    <<"P","r","e","s","t","i","g","e"," ","A","u","t","o","s">>,
    <<"D","e","s","i","g","n","e","r"," ","D","e","n">>,
    <<"L","u","x","u","r","y"," ","S","i","x">>,
    <<"P","r","e","m","i","u","m"," ","Y","a","c","h","t","s">>,
    <<"G","l","o","w"," ","B","e","a","u","t","y">>,
    <<" ","G","l","o","w"," ","B","e","a","u","t","y"," ">>,
    <<"P","r","e","m","i","u","m"," ","P","a","i","n","t","s">>,
    <<"A","c","m","e">>,
    <<" "," ">>>>

CompaniesInit ==
  /\ co_pc = "input"
  /\ co_data = <<>>
  /\ co_map = <<>>
  /\ co_out = <<>>
  /\ Idle("companies")

\* The export gets one more record with a company (the odd ones of
\* SampleCompanies are connections, the even ones company follows)
AddCompanyRecord ==
  /\ co_pc = "input"
  /\ Len(co_data) < MaxCompanies
  /\ \E k \in DOMAIN SampleCompanies :
       /\ \A i \in DOMAIN co_data : co_data[i].sample < k
       /\ co_data' =
            Append(co_data,
                   [kind |-> IF k % 2 = 1 THEN "connections"
                             ELSE "company_follows",
                    company |-> SampleCompanies[k], sample |-> k])
  /\ UNCHANGED <<co_pc, co_map, co_out>>
  /\ Frame("companies")

\* data, company_map = sanitize_companies(data): the stripped companies of
\* the connections and of the company follows are collected, mapped, and
\* replaced in the records
SanitizeCompanies ==
  /\ co_pc = "input"
  /\ co_pc' = "done"
  /\ \E company_map \in
          {CompanyMap({Strip(co_data[i].company) : i \in DOMAIN co_data})} :
       /\ co_map' = company_map
       /\ co_out' = [i \in DOMAIN co_data |->
                       [co_data[i] EXCEPT
                          !.company = company_map[Strip(co_data[i].company)]]]
  /\ UNCHANGED co_data
  /\ Frame("companies")

\* name is a numbered variant "base (n)" of a name of the pool
IsVariantOf(name, pool) ==
  \E b \in DOMAIN pool, n \in 0..MaxCompanies :
    name = pool[b] \o <<" ", "(">> \o Digits(n) \o <<")">>

\* C10: the fake name of every real company is a name of the FAKE_COMPANIES
\* pool of the industry _classify_company gives the real name, or a numbered
\* variant of a name of that pool, and is in no other industry's pool
C10_FakeFromIndustryPool ==
  co_pc = "done" =>
    \A real \in DOMAIN co_map :
      \E industry \in {ClassifyCompany(real)} :
        /\ \/ \E b \in DOMAIN FAKE_COMPANIES[industry] :
                co_map[real] = FAKE_COMPANIES[industry][b]
           \/ IsVariantOf(co_map[real], FAKE_COMPANIES[industry])
        /\ \A other \in DOMAIN FAKE_COMPANIES \ {industry} :
             \A b \in DOMAIN FAKE_COMPANIES[other] :
               co_map[real] # FAKE_COMPANIES[other][b]

\* C10 witness: seven luxury companies, six with the names of the luxury
\* pool and the seventh with a numbered variant, next to a dtc company
C10_Witness ==
  /\ co_pc = "done"
  /\ Cardinality({r \in DOMAIN co_map : ClassifyCompany(r) = "luxury"}) = 7
  /\ \E r \in DOMAIN co_map : IsVariantOf(co_map[r], FAKE_COMPANIES.luxury)
  /\ \E r \in DOMAIN co_map : ClassifyCompany(r) = "dtc"

\* C11: the company map is 1:1: every distinct real company name of the
\* connections and the company follows has a fake name, every record
\* carries the fake name of its company, and no two distinct real companies
\* have the same fake name, numbered variants included
C11_CompanyMapOneToOne ==
  co_pc = "done" =>
    /\ DOMAIN co_map = {Strip(co_data[i].company) : i \in DOMAIN co_data}
    /\ \A i \in DOMAIN co_out :
         co_out[i].company = co_map[Strip(co_data[i].company)]
    /\ \A r1, r2 \in DOMAIN co_map :
         co_map[r1] = co_map[r2] => r1 = r2

\* C11 witness: the luxury pool is exhausted, a numbered variant is in the
\* map next to the six names of the pool, and eight companies are mapped
C11_Witness ==
  /\ co_pc = "done"
  /\ Cardinality(DOMAIN co_map) = MaxCompanies
  /\ \A b \in DOMAIN FAKE_COMPANIES.luxury :
       \E r \in DOMAIN co_map : co_map[r] = FAKE_COMPANIES.luxury[b]
  /\ \E r \in DOMAIN co_map, n \in 1..MaxCompanies, b \in DOMAIN FAKE_COMPANIES.luxury :
       co_map[r] = VariantName(FAKE_COMPANIES.luxury[b], n)

(***************************************************************************)
(* sanitize.py: sanitize_messages and the messages step of sanitize_all;   *)
(* analyze.py: classify_inbox.  A message is a record of sender, content,  *)
(* subject and date, each None when the export has no value.               *)
(***************************************************************************)

\* FAKE_MESSAGES_GENUINE
FAKE_MESSAGES_GENUINE ==
  <<
    \* Great to connect! Would love to chat about your work in the space.
    <<"G", "r", "e", "a", "t", " ", "t", "o", " ", "c", "o", "n", "n", "e",
      "c", "t", "!", " ", "W", "o", "u", "l", "d", " ", "l", "o", "v", "e",
      " ", "t", "o", " ", "c", "h", "a", "t", " ", "a", "b", "o", "u", "t",
      " ", "y", "o", "u", "r", " ", "w", "o", "r", "k", " ", "i", "n", " ",
      "t", "h", "e", " ", "s", "p", "a", "c", "e", ".">>,
    \* Thanks for reaching out. Happy to discuss further next week.
    <<"T", "h", "a", "n", "k", "s", " ", "f", "o", "r", " ", "r", "e", "a",
      "c", "h", "i", "n", "g", " ", "o", "u", "t", ".", " ", "H", "a", "p",
      "p", "y", " ", "t", "o", " ", "d", "i", "s", "c", "u", "s", "s", " ",
      "f", "u", "r", "t", "h", "e", "r", " ", "n", "e", "x", "t", " ", "w",
      "e", "e", "k", ".">>,
    \* Really enjoyed your recent post. Let me know if you want to collaborate.
    <<"R", "e", "a", "l", "l", "y", " ", "e", "n", "j", "o", "y", "e", "d",
      " ", "y", "o", "u", "r", " ", "r", "e", "c", "e", "n", "t", " ", "p",
      "o", "s", "t", ".", " ", "L", "e", "t", " ", "m", "e", " ", "k", "n",
      "o", "w", " ", "i", "f", " ", "y", "o", "u", " ", "w", "a", "n", "t",
      " ", "t", "o", " ", "c", "o", "l", "l", "a", "b", "o", "r", "a", "t",
      "e", ".">>,
    \* Following up on our conversation at the conference last month.
    <<"F", "o", "l", "l", "o", "w", "i", "n", "g", " ", "u", "p", " ", "o",
      "n", " ", "o", "u", "r", " ", "c", "o", "n", "v", "e", "r", "s", "a",
      "t", "i", "o", "n", " ", "a", "t", " ", "t", "h", "e", " ", "c", "o",
      "n", "f", "e", "r", "e", "n", "c", "e", " ", "l", "a", "s", "t", " ",
      "m", "o", "n", "t", "h", ".">>,
    \* Appreciate the introduction. Looking forward to connecting.
    <<"A", "p", "p", "r", "e", "c", "i", "a", "t", "e", " ", "t", "h", "e",
      " ", "i", "n", "t", "r", "o", "d", "u", "c", "t", "i", "o", "n", ".",
      " ", "L", "o", "o", "k", "i", "n", "g", " ", "f", "o", "r", "w", "a",
      "r", "d", " ", "t", "o", " ", "c", "o", "n", "n", "e", "c", "t", "i",
      "n", "g", ".">>,
    \* Would you be open to a quick call? I think there could be some synergy.
    <<"W", "o", "u", "l", "d", " ", "y", "o", "u", " ", "b", "e", " ", "o",
      "p", "e", "n", " ", "t", "o", " ", "a", " ", "q", "u", "i", "c", "k",
      " ", "c", "a", "l", "l", "?", " ", "I", " ", "t", "h", "i", "n", "k",
      " ", "t", "h", "e", "r", "e", " ", "c", "o", "u", "l", "d", " ", "b",
      "e", " ", "s", "o", "m", "e", " ", "s", "y", "n", "e", "r", "g", "y",
      ".">>,
    \* Thanks for the recommendation! Excited about the opportunity.
    <<"T", "h", "a", "n", "k", "s", " ", "f", "o", "r", " ", "t", "h", "e",
      " ", "r", "e", "c", "o", "m", "m", "e", "n", "d", "a", "t", "i", "o",
      "n", "!", " ", "E", "x", "c", "i", "t", "e", "d", " ", "a", "b", "o",
      "u", "t", " ", "t", "h", "e", " ", "o", "p", "p", "o", "r", "t", "u",
      "n", "i", "t", "y", ".">>,
    \* Just saw your company announcement. Congratulations on the milestone!
    <<"J", "u", "s", "t", " ", "s", "a", "w", " ", "y", "o", "u", "r", " ",
      "c", "o", "m", "p", "a", "n", "y", " ", "a", "n", "n", "o", "u", "n",
      "c", "e", "m", "e", "n", "t", ".", " ", "C", "o", "n", "g", "r", "a",
      "t", "u", "l", "a", "t", "i", "o", "n", "s", " ", "o", "n", " ", "t",
      "h", "e", " ", "m", "i", "l", "e", "s", "t", "o", "n", "e", "!">>,
    \* Been meaning to reach out. Your perspective on this would be valuable.
    <<"B", "e", "e", "n", " ", "m", "e", "a", "n", "i", "n", "g", " ", "t",
      "o", " ", "r", "e", "a", "c", "h", " ", "o", "u", "t", ".", " ", "Y",
      "o", "u", "r", " ", "p", "e", "r", "s", "p", "e", "c", "t", "i", "v",
      "e", " ", "o", "n", " ", "t", "h", "i", "s", " ", "w", "o", "u", "l",
      "d", " ", "b", "e", " ", "v", "a", "l", "u", "a", "b", "l", "e", ".">>,
    \* Let me know when you have time for that coffee chat.
    <<"L", "e", "t", " ", "m", "e", " ", "k", "n", "o", "w", " ", "w", "h",
      "e", "n", " ", "y", "o", "u", " ", "h", "a", "v", "e", " ", "t", "i",
      "m", "e", " ", "f", "o", "r", " ", "t", "h", "a", "t", " ", "c", "o",
      "f", "f", "e", "e", " ", "c", "h", "a", "t", ".">>
  >>

\* FAKE_MESSAGES_NOISE
FAKE_MESSAGES_NOISE ==
  <<
    \* I noticed your profile and thought you might be interested in...
    <<"I", " ", "n", "o", "t", "i", "c", "e", "d", " ", "y", "o", "u", "r",
      " ", "p", "r", "o", "f", "i", "l", "e", " ", "a", "n", "d", " ", "t",
      "h", "o", "u", "g", "h", "t", " ", "y", "o", "u", " ", "m", "i", "g",
      "h", "t", " ", "b", "e", " ", "i", "n", "t", "e", "r", "e", "s", "t",
      "e", "d", " ", "i", "n", ".", ".", ".">>,
    \* We're hiring for a role that seems like a perfect fit for you.
    <<"W", "e", "'", "r", "e", " ", "h", "i", "r", "i", "n", "g", " ", "f",
      "o", "r", " ", "a", " ", "r", "o", "l", "e", " ", "t", "h", "a", "t",
      " ", "s", "e", "e", "m", "s", " ", "l", "i", "k", "e", " ", "a", " ",
      "p", "e", "r", "f", "e", "c", "t", " ", "f", "i", "t", " ", "f", "o",
      "r", " ", "y", "o", "u", ".">>,
    \* I'd love to connect and share an exciting opportunity.
    <<"I", "'", "d", " ", "l", "o", "v", "e", " ", "t", "o", " ", "c", "o",
      "n", "n", "e", "c", "t", " ", "a", "n", "d", " ", "s", "h", "a", "r",
      "e", " ", "a", "n", " ", "e", "x", "c", "i", "t", "i", "n", "g", " ",
      "o", "p", "p", "o", "r", "t", "u", "n", "i", "t", "y", ".">>,
    \* Hope this finds you well. I came across your profile and...
    <<"H", "o", "p", "e", " ", "t", "h", "i", "s", " ", "f", "i", "n", "d",
      "s", " ", "y", "o", "u", " ", "w", "e", "l", "l", ".", " ", "I", " ",
      "c", "a", "m", "e", " ", "a", "c", "r", "o", "s", "s", " ", "y", "o",
      "u", "r", " ", "p", "r", "o", "f", "i", "l", "e", " ", "a", "n", "d",
      ".", ".", ".">>,
    \* Limited time offer: exclusive access to our platform.
    <<"L", "i", "m", "i", "t", "e", "d", " ", "t", "i", "m", "e", " ", "o",
      "f", "f", "e", "r", ":", " ", "e", "x", "c", "l", "u", "s", "i", "v",
      "e", " ", "a", "c", "c", "e", "s", "s", " ", "t", "o", " ", "o", "u",
      "r", " ", "p", "l", "a", "t", "f", "o", "r", "m", ".">>,
    \* Are you open to exploring new opportunities?
    <<"A", "r", "e", " ", "y", "o", "u", " ", "o", "p", "e", "n", " ", "t",
      "o", " ", "e", "x", "p", "l", "o", "r", "i", "n", "g", " ", "n", "e",
      "w", " ", "o", "p", "p", "o", "r", "t", "u", "n", "i", "t", "i", "e",
      "s", "?">>,
    \* I help professionals like you achieve their career goals.
    <<"I", " ", "h", "e", "l", "p", " ", "p", "r", "o", "f", "e", "s", "s",
      "i", "o", "n", "a", "l", "s", " ", "l", "i", "k", "e", " ", "y", "o",
      "u", " ", "a", "c", "h", "i", "e", "v", "e", " ", "t", "h", "e", "i",
      "r", " ", "c", "a", "r", "e", "e", "r", " ", "g", "o", "a", "l", "s",
      ".">>,
    \* Quick question: are you satisfied with your current CRM?
    <<"Q", "u", "i", "c", "k", " ", "q", "u", "e", "s", "t", "i", "o", "n",
      ":", " ", "a", "r", "e", " ", "y", "o", "u", " ", "s", "a", "t", "i",
      "s", "f", "i", "e", "d", " ", "w", "i", "t", "h", " ", "y", "o", "u",
      "r", " ", "c", "u", "r", "r", "e", "n", "t", " ", "C", "R", "M", "?">>,
    \* Book a free consultation to learn how we can help.
    <<"B", "o", "o", "k", " ", "a", " ", "f", "r", "e", "e", " ", "c", "o",
      "n", "s", "u", "l", "t", "a", "t", "i", "o", "n", " ", "t", "o", " ",
      "l", "e", "a", "r", "n", " ", "h", "o", "w", " ", "w", "e", " ", "c",
      "a", "n", " ", "h", "e", "l", "p", ".">>,
    \* Just following up on my previous message about the opportunity.
    <<"J", "u", "s", "t", " ", "f", "o", "l", "l", "o", "w", "i", "n", "g",
      " ", "u", "p", " ", "o", "n", " ", "m", "y", " ", "p", "r", "e", "v",
      "i", "o", "u", "s", " ", "m", "e", "s", "s", "a", "g", "e", " ", "a",
      "b", "o", "u", "t", " ", "t", "h", "e", " ", "o", "p", "p", "o", "r",
      "t", "u", "n", "i", "t", "y", ".">>
  >>

\* What rng.choice of random.Random(99) returns call after call on a list
\* of ten: the (0-based) positions of the templates the messages get
ChoiceOrder == <<6, 6, 3, 9, 2, 3, 3, 2, 1, 4, 6, 8>>

\* _hash_to_name(real_name) for the senders of the model: the first and the
\* last name the MD5 digest of the name selects
HashToName(real_name) ==
  CASE real_name = <<"A","n","n","a"," ","L","e","e">> ->
         <<"U","m","a"," ","U","n","d","e","r","w","o","o","d">>
    [] real_name = <<"A","N","N","A"," ","l","e","e">> ->
         <<"F","l","y","n","n"," ","A","l","d","r","i","d","g","e">>
    [] real_name = <<"L","e","e">> ->
         <<"F","l","y","n","n"," ","M","o","n","r","o","e">>
    [] real_name = <<"Z","o","e"," ","F","o","x">> ->
         <<"Z","o","l","a"," ","Y","a","r","d","l","e","y">>
    [] real_name = <<"S","a","m"," ","K","a","y">> ->
         <<"R","o","w","a","n"," ","V","o","s","s">>
    [] real_name = <<"A","m","y"," ","L","e","e">> ->
         <<"V","e","r","a"," ","L","o","c","k","w","o","o","d">>
    [] real_name = <<"M","e","g"," ","W","u">> ->
         <<"V","e","r","a"," ","L","o","c","k","w","o","o","d">>

\* x or "": None and the empty string are both falsy
OrEmpty(x) == IF x = None THEN <<>> ELSE x

\* The content sanitize_messages gives the k-th message: the lower-cased
\* content is handed to _is_spam, the template is the rng's k-th choice
SanitizeContent(content, k) ==
  CHOOSE template \in
    {IF IsSpam(lower) THEN FAKE_MESSAGES_NOISE[ChoiceOrder[k] + 1]
                      ELSE FAKE_MESSAGES_GENUINE[ChoiceOrder[k] + 1] :
       lower \in {Lower(OrEmpty(content))}} : TRUE

\* sanitize_messages(messages, name_map)
SanitizeMessages(messages, name_map) ==
  LET Sender(sender) ==
        IF name_map = <<>> \/ OrEmpty(sender) = <<>> THEN sender
        ELSE IF Strip(sender) \in DOMAIN name_map
          THEN name_map[Strip(sender)].full
        ELSE HashToName(Strip(sender))
  IN  [k \in DOMAIN messages |->
         [sender |-> Sender(messages[k].sender),
          content |-> SanitizeContent(messages[k].content, k),
          subject |-> IF OrEmpty(messages[k].subject) = <<>>
                        THEN messages[k].subject
                        ELSE <<"R","e",":"," ","C","o","n","n","e","c","t","i","o","n">>,
          date |-> messages[k].date]]

\* build_name_map(connections); choice is what the global generator answers
\* to _guess_gender for an empty first name
BuildNameMap(connections, choice) ==
  LET Step(r, i) == NameMapIteration(r, connections[i], choice)
  IN  FoldRange(Step, [name_map |-> <<>>, used_names |-> {},
                       idx |-> [f_idx |-> 0, m_idx |-> 0, l_idx |-> 0]],
                1, Len(connections)).name_map

\* classify_inbox(messages): the loop counts every dated message in the
\* period <<year, half>> of its date as noise or genuine, by _is_spam of
\* msg.get("content") or msg.get("subject") or ""; the periods are returned
\* in sorted order
ClassifyInbox(messages) ==
  LET Bump(periods, key, noise) ==
        LET old == IF key \in DOMAIN periods THEN periods[key]
                   ELSE [genuine |-> 0, noise |-> 0]
        IN  (key :> IF noise THEN [old EXCEPT !.noise = @ + 1]
                    ELSE [old EXCEPT !.genuine = @ + 1]) @@ periods
      Count(periods, m, dt) ==
        IF dt = None THEN periods
        ELSE CHOOSE p \in
               {Bump(periods, <<dt[1], IF dt[2] <= 6 THEN 1 ELSE 2>>, noise) :
                  noise \in {IsSpam(IF OrEmpty(m.content) # <<>> THEN m.content
                                    ELSE OrEmpty(m.subject))}} : TRUE
      Step(periods, i) ==
        CHOOSE p \in
          {Count(periods, messages[i], dt) :
             dt \in {IF messages[i].date = None
                          \/ messages[i].date = <<"str", <<>>>> THEN None
                     ELSE IF Len(messages[i].date) = 2
                       THEN ParseDate(messages[i].date[2])
                     ELSE messages[i].date}} : TRUE
      Before(a, b) == a[1] < b[1] \/ (a[1] = b[1] /\ a[2] < b[2])
      Results(periods) ==
        [n \in 1..Cardinality(DOMAIN periods) |->
           LET key == CHOOSE k \in DOMAIN periods :
                        Cardinality({j \in DOMAIN periods : Before(j, k)}) = n - 1
           IN  [period |-> key,
                genuine |-> periods[key].genuine,
                noise |-> periods[key].noise,
                total |-> periods[key].genuine + periods[key].noise]]
  IN  CHOOSE results \in
        {Results(periods) :
           periods \in {FoldRange(Step, <<>>, 1, Len(messages))}} : TRUE

(***************************************************************************)
(* sanitize_all on the connections SampleConnections and an inbox of up to *)
(* MaxInbox messages, then score_messages and classify_inbox on the        *)
(* original and on the sanitized data.                                     *)
(***************************************************************************)

\* How many messages the inbox holds
MaxInbox == 2

\* The contents of the messages, with what analyze._is_spam says of each:
\* none, empty, no indicator, one indicator in a short text, two
\* indicators in a long text, one indicator in exactly 100 characters, one
\* indicator in 99 upper-case characters, one indicator in 99 characters
\* that lower() makes 194
InboxContents ==
  LET Times(c, n) == [i \in 1..n |-> c]
  IN
  [none    |-> [content |-> None, spam |-> FALSE],
   empty   |-> [content |-> <<>>, spam |-> FALSE],
   hello   |-> [content |-> <<"H","e","l","l","o">>, spam |-> FALSE],
   short   |-> [content |-> <<"D","e","m","o">>, spam |-> TRUE],
   two     |-> [content |-> <<"F","r","e","e"," ","t","r","i","a","l",","," ",
                              "d","e","m","o"," ">> \o Times("x", 90),
                spam |-> TRUE],
   long    |-> [content |-> <<"d","e","m","o">> \o Times("x", 96), spam |-> FALSE],
   upper   |-> [content |-> <<"D","E","M","O">> \o Times("X", 95), spam |-> TRUE],
   dotted  |-> [content |-> <<"d","e","m","o">> \o Times("<I-dot>", 95),
                spam |-> TRUE]]

\* Senders who are no connection: the digest of the first selects the fake
\* name the name map gives the first connection, the digests of the other
\* two select one fake name
StrangerSenders ==
  {<<"S","a","m"," ","K","a","y">>, <<"A","m","y"," ","L","e","e">>, <<"M","e","g"," ","W","u">>}

InboxInit ==
  /\ ib_pc = "input"
  /\ ib_messages = <<>>
  /\ ib_out = <<>>
  /\ ib_metrics = <<>>
  /\ Idle("inbox")

\* The inbox gets one more message: any content from the first connection
\* at the end of June (with a subject j, with or without an indicator, when
\* it has no content), or any sender and date d (none, around the middle of
\* 2024, the end of 2023, 91 days before Now, one still in text form) with a
\* plain content, or a stranger at the end of 2023 with a plain content
AddInboxMessage ==
  /\ ib_pc = "input"
  /\ Len(ib_messages) < MaxInbox
  /\ \E s \in SampleSenders \cup StrangerSenders, c \in DOMAIN InboxContents,
        j \in {None, <<"H","i">>, <<"F","r","e","e"," ","t","r","i","a","l">>},
        d \in {None, <<2024, 6, 30, 23, 59, 59>>, <<2024, 7, 1, 0, 0, 0>>,
               <<2023, 12, 31, 9, 0, 0>>, MessageDates.past90.date,
               <<"str", <<"2","0","2","4","-","0","7","-","0","1"," ",
                          "0","8",":","3","0",":","4","5"," ","U","T","C">>>>} :
       /\ \/ /\ s = <<"A","n","n","a"," ","L","e","e">>
             /\ d = <<2024, 6, 30, 23, 59, 59>>
             /\ j = None \/ c \in {"none", "empty"}
          \/ c = "hello" /\ j = None /\ s \in SampleSenders
          \/ /\ s \in StrangerSenders
             /\ c = "hello" /\ j = None /\ d = <<2023, 12, 31, 9, 0, 0>>
       /\ ib_messages' =
            Append(ib_messages,
                   [sender |-> s, content |-> InboxContents[c].content,
                    subject |-> j, date |-> d, wrote |-> c])
  /\ UNCHANGED <<ib_pc, ib_out, ib_metrics>>
  /\ Frame("inbox")

\* sanitize_all(parsed_data), steps 1, 2 and 4: the name map is built from
\* the connections, the connections and the messages are rewritten
SanitizeAllData ==
  /\ ib_pc = "input"
  /\ ib_pc' = "sanitized"
  /\ \E choice \in {"M", "F"} :
       \E name_map \in {BuildNameMap(SampleConnections, choice)} :
         ib_out' =
           [connections |->
              [c \in DOMAIN SampleConnections |->
                 SanitizeConnection(SampleConnections[c], name_map)],
            messages |->
              SanitizeMessages(
                [k \in DOMAIN ib_messages |->
                   [sender |-> ib_messages[k].sender,
                    content |-> ib_messages[k].content,
                    subject |-> ib_messages[k].subject,
                    date |-> ib_messages[k].date]], name_map)]
  /\ UNCHANGED <<ib_messages, ib_metrics>>
  /\ Frame("inbox")

\* score_messages and classify_inbox are run on the original data and on
\* the sanitized data
AnalyzeBoth ==
  /\ ib_pc = "sanitized"
  /\ ib_pc' = "done"
  /\ ib_metrics' =
       [tiers_before |-> ScoreMessages(SampleConnections, ib_messages, Now),
        tiers_after |-> ScoreMessages(ib_out.connections, ib_out.messages, Now),
        inbox_before |-> ClassifyInbox(ib_messages),
        inbox_after |-> ClassifyInbox(ib_out.messages)]
  /\ UNCHANGED <<ib_messages, ib_out>>
  /\ Frame("inbox")

\* t is one of the templates of pool
IsTemplate(t, pool) == \E k \in DOMAIN pool : t = pool[k]

\* C12: every message's content is replaced by a FAKE_MESSAGES_NOISE
\* template if analyze._is_spam calls the original content spam and by a
\* FAKE_MESSAGES_GENUINE template otherwise; no original content is left
C12_ContentByTemplate ==
  ib_pc # "input" /\ ib_pc # "idle" =>
    \A k \in DOMAIN ib_messages :
      /\ IF InboxContents[ib_messages[k].wrote].spam
           THEN IsTemplate(ib_out.messages[k].content, FAKE_MESSAGES_NOISE)
           ELSE IsTemplate(ib_out.messages[k].content, FAKE_MESSAGES_GENUINE)
      /\ ib_out.messages[k].content # ib_messages[k].content

\* The `spam` entries of InboxContents are what _is_spam returns
InboxContentsExact ==
  \A c \in DOMAIN InboxContents :
    InboxContents[c].spam = IsSpam(OrEmpty(InboxContents[c].content))

\* What of C12 the code keeps: the template is of the pool which _is_spam
\* selects on the lower-cased content
ContentByLoweredTemplate ==
  ib_pc # "input" /\ ib_pc # "idle" =>
    \A k \in DOMAIN ib_messages :
      /\ IF IsSpam(Lower(OrEmpty(ib_messages[k].content)))
           THEN IsTemplate(ib_out.messages[k].content, FAKE_MESSAGES_NOISE)
           ELSE IsTemplate(ib_out.messages[k].content, FAKE_MESSAGES_GENUINE)
      /\ ib_out.messages[k].content # ib_messages[k].content

\* C13: score_messages gives every connection the same tier on the
\* sanitized data as on the original data
C13_TiersPreserved ==
  ib_pc = "done" =>
    \A c \in DOMAIN SampleConnections :
      ib_metrics.tiers_after[c].tier = ib_metrics.tiers_before[c].tier

\* What of C13 the code keeps: a connection keeps its tier when every
\* sender is written exactly as a connection's stripped full name is, or is
\* nobody's name in any spelling and gets no connection's fake name
TiersPreservedOnExactSenders ==
  ib_pc = "done" =>
    ((\A k \in DOMAIN ib_messages :
        /\ ib_messages[k].sender # <<" "," ","A","N","N","A"," ","l","e","e"," ">>
        /\ ib_messages[k].sender # <<"S","a","m"," ","K","a","y">>)
       => \A c \in DOMAIN SampleConnections :
            ib_metrics.tiers_after[c].tier = ib_metrics.tiers_before[c].tier)

\* C14: classify_inbox reports the same genuine and noise counts for every
\* half-year period on the sanitized messages as on the original messages
C14_InboxPreserved ==
  ib_pc = "done" => ib_metrics.inbox_after = ib_metrics.inbox_before

\* What of C14 the code keeps: the counts are the same when every message
\* has a content of its own without a character that lower() lengthens
InboxPreservedOnPlainContent ==
  ib_pc = "done" =>
    ((\A k \in DOMAIN ib_messages :
        ib_messages[k].wrote \notin {"none", "empty", "dotted"})
       => ib_metrics.inbox_after = ib_metrics.inbox_before)

\* The real names of a run with the fake names the output shows for them:
\* every connection's stripped full name with the name the sanitized
\* connection carries, every message's stripped sender with the sanitized
\* sender
NamePairs ==
  {<<SanitizeRealFull(SampleConnections[c]),
     JoinName(ib_out.connections[c].first_name,
              ib_out.connections[c].last_name)>> : c \in DOMAIN SampleConnections}
  \cup {<<Strip(ib_messages[k].sender), ib_out.messages[k].sender>> :
          k \in {i \in DOMAIN ib_messages : OrEmpty(ib_messages[i].sender) # <<>>}}

\* C28: across one sanitize_all run no two distinct real names end up with
\* the same fake name anywhere in the output, whether the name map or the
\* fallback _hash_to_name assigned it
C28_NoSharedFakeName ==
  ib_pc \in {"sanitized", "done"} =>
    \A p, q \in NamePairs : p[1] # q[1] => p[2] # q[2]

\* What of C28 the code keeps: one real name has one fake name all over the
\* output, and the names of the name map differ from one another
OneFakeNamePerRealName ==
  ib_pc \in {"sanitized", "done"} =>
    /\ \A p, q \in NamePairs : p[1] = q[1] => p[2] = q[2]
    /\ \A c, d \in DOMAIN SampleConnections :
         SanitizeRealFull(SampleConnections[c]) # SanitizeRealFull(SampleConnections[d])
           => ib_out.connections[c] # ib_out.connections[d]

(***************************************************************************)
(* generate_viz.py: inject_data.                                           *)
(***************************************************************************)

\* The three placeholders of the templates
PLACEHOLDERS ==
  [DATA |-> <<"{","{","D","A","T","A","}","}">>,
   THEME_CSS |-> <<"{","{","T","H","E","M","E","_","C","S","S","}","}">>,
   GENERATED_AT |-> <<"{","{","G","E","N","E","R","A","T","E","D","_","A","T","}","}">>]

\* json.dumps(data_dict, ensure_ascii=False) of a dict with the one key
\* "note" and a string value: the value between double quotes, its double
\* quotes and backslashes behind a backslash, a line feed as \n
JsonDumps(data_dict) ==
  LET Step(out, i) ==
        LET c == data_dict.note[i]
        IN  IF c \in {"<quote>", "<backslash>"} THEN out \o <<"<backslash>", c>>
            ELSE IF c = "\n" THEN out \o <<"<backslash>", "n">>
            ELSE Append(out, c)
  IN  <<"{","<quote>","n","o","t","e","<quote>",":"," ","<quote>">>
        \o FoldRange(Step, <<>>, 1, Len(data_dict.note))
        \o <<"<quote>","}">>

\* datetime.isoformat(timespec="seconds"): YYYY-MM-DDTHH:MM:SS
IsoFormat(dt) ==
  LET Two(n) == IF n < 10 THEN <<"0">> \o Digits(n) ELSE Digits(n)
      Four(n) == IF n < 10 THEN <<"0", "0", "0">> \o Digits(n)
                 ELSE IF n < 100 THEN <<"0", "0">> \o Digits(n)
                 ELSE IF n < 1000 THEN <<"0">> \o Digits(n)
                 ELSE Digits(n)
  IN  Four(dt[1]) \o <<"-">> \o Two(dt[2]) \o <<"-">> \o Two(dt[3]) \o <<"T">>
        \o Two(dt[4]) \o <<":">> \o Two(dt[5]) \o <<":">> \o Two(dt[6])

\* inject_data(template_html, data_dict, theme_css) with datetime.now() =
\* now: three str.replace calls, one after the other on the running result
InjectData(template_html, data_dict, theme_css, now) ==
  CHOOSE result \in
    {Replace(with_css, PLACEHOLDERS.GENERATED_AT, IsoFormat(now)) :
       with_css \in
         {Replace(with_data, PLACEHOLDERS.THEME_CSS, theme_css) :
            with_data \in
              {Replace(template_html, PLACEHOLDERS.DATA, json_str) :
                 json_str \in {JsonDumps(data_dict)}}}} : TRUE

(***************************************************************************)
(* inject_data on a template written from up to MaxTemplateChunks chunks.  *)
(***************************************************************************)

\* How many chunks a template has
MaxTemplateChunks == 3

\* The chunks of a template: markup, the three placeholders, a name in
\* braces that is no placeholder
TemplateChunks ==
  [markup |-> <<"<","p",">",";","<","/","p",">">>,
   DATA |-> PLACEHOLDERS.DATA,
   THEME_CSS |-> PLACEHOLDERS.THEME_CSS,
   GENERATED_AT |-> PLACEHOLDERS.GENERATED_AT,
   other |-> <<"{","{","d","a","t","a","}","}">>]

VizInit ==
  /\ vz_pc = "input"
  /\ vz_template = <<>>
  /\ vz_call = <<>>
  /\ Idle("viz")

\* The template gets one more chunk
AppendTemplateChunk ==
  /\ vz_pc = "input"
  /\ Len(vz_template) < MaxTemplateChunks
  /\ \E c \in DOMAIN TemplateChunks : vz_template' = Append(vz_template, c)
  /\ UNCHANGED <<vz_pc, vz_call>>
  /\ Frame("viz")

\* The text written from the chunks named by names, each as piece gives it
RECURSIVE Pieces(_, _)
Pieces(names, piece) ==
  IF names = <<>> THEN <<>>
  ELSE piece[Head(names)] \o Pieces(Tail(names), piece)

\* populated = inject_data(template_html, data, theme_css): the data's note
\* is plain, has a double quote and a line feed, or is the text of a
\* placeholder; the theme CSS is empty, a rule, or holds the text of a
\* placeholder
CallInjectData ==
  /\ vz_pc = "input"
  /\ vz_pc' = "done"
  /\ \E note \in {<<"h", "i">>, <<"a", "<quote>", "b", "\n">>,
                   PLACEHOLDERS.THEME_CSS, PLACEHOLDERS.GENERATED_AT},
        theme_css \in {<<>>, <<"p", "{", "}">>, PLACEHOLDERS.DATA,
                       <<"/", "*">> \o PLACEHOLDERS.GENERATED_AT \o <<"*", "/">>} :
       vz_call' =
         [data |-> [note |-> note], theme_css |-> theme_css,
          result |-> InjectData(Pieces(vz_template, TemplateChunks),
                                [note |-> note], theme_css, Now)]
  /\ UNCHANGED vz_template
  /\ Frame("viz")

\* C15: the result is the template with every occurrence of {{DATA}},
\* {{THEME_CSS}} and {{GENERATED_AT}} replaced by the JSON serialisation of
\* the data, the theme CSS text and the timestamp, and every other
\* character unchanged
C15_PlaceholdersReplaced ==
  vz_pc = "done" =>
    vz_call.result =
      Pieces(vz_template,
             [TemplateChunks EXCEPT
                !.DATA = JsonDumps(vz_call.data),
                !.THEME_CSS = vz_call.theme_css,
                !.GENERATED_AT = IsoFormat(Now)])

\* What of C15 the code keeps: the same, when neither the JSON text nor the
\* CSS text holds the text of a placeholder that is replaced later
PlaceholdersReplacedInPlainData ==
  vz_pc = "done" =>
    ((/\ ~Contains(vz_call.data.note, PLACEHOLDERS.THEME_CSS)
      /\ ~Contains(vz_call.data.note, PLACEHOLDERS.GENERATED_AT)
      /\ ~Contains(vz_call.theme_css, PLACEHOLDERS.GENERATED_AT))
       => C15_PlaceholdersReplaced)

\* C29: the JSON text put in the place of {{DATA}} reaches the output
\* unaltered, whatever the data's strings hold: a template with {{DATA}}
\* gives a result that holds the JSON serialisation of the data
C29_DataUnaltered ==
  vz_pc = "done" =>
    ((\E i \in DOMAIN vz_template : vz_template[i] = "DATA")
       => Contains(vz_call.result, JsonDumps(vz_call.data)))

\* What of C29 the code keeps: the JSON text is in the result when the data
\* holds the text of no placeholder that is replaced later
DataUnalteredInPlainData ==
  vz_pc = "done" =>
    ((/\ ~Contains(vz_call.data.note, PLACEHOLDERS.THEME_CSS)
      /\ ~Contains(vz_call.data.note, PLACEHOLDERS.GENERATED_AT))
       => C29_DataUnaltered)

(***************************************************************************)
(* The --output flag of the scripts of the Klaviyo skill pack.  A path is  *)
(* the sequence of its segments from the root; a segment is a string.      *)
(***************************************************************************)

\* The scripts that take --output, and whether main hands args.output to
\* _safe_output_path before it opens the file (dev_tools.py writes in main
\* and, for --tool export-data, in export_data when there is data to write)
OUTPUT_SCRIPTS ==
  [klaviyo_analyst_client  |-> TRUE,
   klaviyo_analyst_analyze |-> TRUE,
   klaviyo_dev_client      |-> TRUE,
   dev_tools               |-> FALSE,
   dev_tools_export_data   |-> FALSE,
   shopify_client          |-> TRUE,
   shopify_analyze         |-> FALSE]

\* The file system of the run: the working directory /w, the directories
\* /wx and /etc beside it, and the symbolic link /w/link to /etc
FileSystem ==
  [cwd   |-> <<<<"w">>>>,
   dirs  |-> {<<>>, <<<<"w">>>>, <<<<"w", "x">>>>, <<<<"e", "t", "c">>>>},
   links |-> (<<<<"w">>, <<"l", "i", "n", "k">>>> :> <<<<"e", "t", "c">>>>)]

\* os.path.realpath(path): a relative path starts at the working directory,
\* ".." leaves a directory (the root stays), a symbolic link is followed
RealPath(path) ==
  LET Step(at, i) ==
        IF path.segs[i] = <<".", ".">>
          THEN (IF at = <<>> THEN at ELSE SubSeq(at, 1, Len(at) - 1))
        ELSE IF Append(at, path.segs[i]) \in DOMAIN FileSystem.links
          THEN FileSystem.links[Append(at, path.segs[i])]
        ELSE Append(at, path.segs[i])
  IN  FoldRange(Step, IF path.absolute THEN <<>> ELSE FileSystem.cwd,
                1, Len(path.segs))

\* The string of a resolved path: os.sep before every segment, "/" alone
\* for the root
RECURSIVE PathString(_)
PathString(at) ==
  IF at = <<>> THEN <<"/">>
  ELSE IF Len(at) = 1 THEN <<"/">> \o at[1]
  ELSE PathString(SubSeq(at, 1, Len(at) - 1)) \o <<"/">> \o at[Len(at)]

\* _safe_output_path(path): the resolved path, or ValueError when its
\* string neither starts with cwd + os.sep nor is cwd
SafeOutputPath(path) ==
  LET resolved == PathString(RealPath(path))
      cwd == PathString(FileSystem.cwd)
  IN  IF ~OccursAt(cwd \o <<"/">>, resolved, 1) /\ resolved # cwd
        THEN ValueError
        ELSE RealPath(path)

(***************************************************************************)
(* A script is run with an --output path of up to MaxSegments segments.    *)
(***************************************************************************)

\* How many segments the path has at most
MaxSegments == 3

OutputInit ==
  /\ op_pc = "input"
  /\ op_path \in {[absolute |-> a, segs |-> <<>>] : a \in BOOLEAN}
  /\ op_run = <<>>
  /\ Idle("output")

\* The path gets one more segment: "..", a directory, the link, a file name
AppendSegment ==
  /\ op_pc = "input"
  /\ Len(op_path.segs) < MaxSegments
  /\ \E seg \in {<<".", ".">>, <<"w">>, <<"w", "x">>, <<"e", "t", "c">>,
                 <<"l", "i", "n", "k">>, <<"o", "u", "t">>} :
       op_path' = [op_path EXCEPT !.segs = Append(@, seg)]
  /\ UNCHANGED <<op_pc, op_run>>
  /\ Frame("output")

\* main of a script with --output op_path: the path is checked where the
\* script checks it, then opened for writing; open fails on a directory and
\* in a directory that does not exist, and main ends with an error then
RunWithOutput ==
  /\ op_pc = "input"
  /\ op_path.segs # <<>>
  /\ op_pc' = "done"
  /\ \E script \in DOMAIN OUTPUT_SCRIPTS :
       \E target \in {IF OUTPUT_SCRIPTS[script] THEN SafeOutputPath(op_path)
                      ELSE RealPath(op_path)} :
         op_run' =
           IF /\ target # ValueError
              /\ target \notin FileSystem.dirs
              /\ SubSeq(target, 1, Len(target) - 1) \in FileSystem.dirs
             THEN [script |-> script, written |-> {target}, status |-> "saved"]
             ELSE [script |-> script, written |-> {}, status |-> "error"]
  /\ UNCHANGED op_path
  /\ Frame("output")

\* at lies inside the working directory
InsideCwd(at) ==
  /\ Len(at) > Len(FileSystem.cwd)
  /\ SubSeq(at, 1, Len(FileSystem.cwd)) = FileSystem.cwd

\* C16: every script that takes --output writes the file only if the
\* resolved path lies inside the working directory, and fails without
\* writing otherwise
C16_OutputConfined ==
  op_pc = "done" =>
    /\ \A at \in op_run.written : InsideCwd(at)
    /\ ~InsideCwd(RealPath(op_path)) =>
         (op_run.written = {} /\ op_run.status = "error")

\* What of C16 the code keeps: the scripts that call _safe_output_path
\* write inside the working directory only
SafeScriptsConfined ==
  (op_pc = "done" /\ OUTPUT_SCRIPTS[op_run.script]) => C16_OutputConfined

(***************************************************************************)
(* The API clients: KlaviyoAnalyticsClient, KlaviyoDevClient (calls of the *)
(* Klaviyo SDK) and ShopifyAnalyticsClient (HTTP requests).                *)
(***************************************************************************)

\* The public methods of the three clients
PUBLIC_METHODS ==
  [KlaviyoAnalyticsClient |->
     {"get_flows", "get_campaigns", "get_segments", "get_lists",
      "get_flow_report", "get_campaign_report", "get_metrics"},
   KlaviyoDevClient |->
     {"track_event", "upsert_profile", "bulk_import", "get_import_job_status",
      "get_catalog_items", "create_catalog_item", "export_profiles",
      "get_metrics"},
   ShopifyAnalyticsClient |->
     {"get_shop_info", "get_orders", "get_products", "get_customers",
      "get_order_count", "get_customer_count", "get_inventory_levels"}]

\* retries = 3 of _raw_request
RETRIES == 3

\* What the server (or the network) does to one HTTP request, and the
\* exception the attempt raises inside the try of _raw_request ("" for
\* none): a 200 with a JSON body; a 200 whose body is no JSON; a 500, which
\* raise_for_status turns into HTTPError; no connection; no answer in time;
\* a 429 with Retry-After in seconds; a 429 with Retry-After as an HTTP
\* date, on which float() raises ValueError
HTTP_OUTCOMES ==
  [ok               |-> [raises |-> "", request_exception |-> FALSE],
   ok_no_json       |-> [raises |-> "", request_exception |-> FALSE],
   server_error     |-> [raises |-> "HTTPError", request_exception |-> TRUE],
   connection_error |-> [raises |-> "ConnectionError", request_exception |-> TRUE],
   timeout          |-> [raises |-> "Timeout", request_exception |-> TRUE],
   rate_limited     |-> [raises |-> "", request_exception |-> FALSE],
   rate_limited_date |-> [raises |-> "ValueError", request_exception |-> FALSE]]

ApiInit ==
  /\ ap_pc = "ready"
  /\ ap_call = <<>>
  /\ ap_result = <<>>
  /\ Idle("api")

\* A public method of one of the Klaviyo clients is called: the SDK call
\* and the parsing of its response are inside `try`, and `except Exception`
\* raises RuntimeError whatever the SDK raised
CallKlaviyoMethod ==
  /\ ap_pc = "ready"
  /\ ap_pc' = "done"
  /\ \E client \in {"KlaviyoAnalyticsClient", "KlaviyoDevClient"} :
       \E method \in PUBLIC_METHODS[client],
          sdk \in {"", "ApiException", "ConnectionError", "KeyError"} :
         /\ ap_call' = [client |-> client, method |-> method, answers |-> <<sdk>>]
         /\ ap_result' = IF sdk = "" THEN [raised |-> ""]
                         ELSE [raised |-> "RuntimeError"]
  /\ Frame("api")

\* A public method of ShopifyAnalyticsClient is called: _request or
\* _paginate hands the first request to _raw_request
StartShopifyRequest ==
  /\ ap_pc = "ready"
  /\ ap_pc' = "request"
  /\ \E method \in PUBLIC_METHODS.ShopifyAnalyticsClient :
       ap_call' = [client |-> "ShopifyAnalyticsClient", method |-> method,
                   answers |-> <<>>]
  /\ UNCHANGED ap_result
  /\ Frame("api")

\* One pass of `for attempt in range(retries)` of _raw_request: a 429 is
\* waited for and retried, a RequestException is retried unless this was
\* the last attempt, any other exception leaves the method; after the loop
\* RuntimeError is raised; the response of a good attempt is returned and
\* its .json() is read outside any try
ShopifyAttempt ==
  /\ ap_pc = "request"
  /\ \E answer \in DOMAIN HTTP_OUTCOMES :
       LET attempt == Len(ap_call.answers)
           outcome == HTTP_OUTCOMES[answer]
           raised ==
             IF answer = "ok" THEN ""
             ELSE IF answer = "ok_no_json" THEN "JSONDecodeError"
             ELSE IF outcome.request_exception
               THEN (IF attempt = RETRIES - 1 THEN "RuntimeError" ELSE "retry")
             ELSE IF outcome.raises # "" THEN outcome.raises
             ELSE IF attempt = RETRIES - 1 THEN "RuntimeError" ELSE "retry"
       IN  /\ ap_call' = [ap_call EXCEPT !.answers = Append(@, answer)]
           /\ IF raised = "retry"
                THEN UNCHANGED <<ap_pc, ap_result>>
                ELSE ap_pc' = "done" /\ ap_result' = [raised |-> raised]
  /\ Frame("api")

\* C17: whenever the SDK or HTTP call fails, the public method raises
\* RuntimeError and lets no other exception type escape
C17_FailuresAreRuntimeErrors ==
  ap_pc = "done" =>
    /\ ap_result.raised \in {"", "RuntimeError"}
    /\ ap_call.answers[Len(ap_call.answers)] \notin {"", "ok"}
         => ap_result.raised = "RuntimeError"

\* What of C17 the code keeps: the Klaviyo clients raise RuntimeError on
\* every failure, and the Shopify client does when the answers are
\* anything but a body that is no JSON or a Retry-After that is no number
KlaviyoFailuresAreRuntimeErrors ==
  (/\ ap_pc = "done"
   /\ \A i \in DOMAIN ap_call.answers :
        ap_call.answers[i] \notin {"ok_no_json", "rate_limited_date"})
    => C17_FailuresAreRuntimeErrors

\* The answers after which _raw_request has no response to return
FailedAnswers ==
  {"server_error", "connection_error", "timeout", "rate_limited",
   "rate_limited_date"}

\* C21: one call of _raw_request issues at most 3 requests, returns the
\* first response that is neither a 429 nor an error status, retries after
\* a 429 or a request exception, and raises RuntimeError when all 3
\* attempts fail, whatever the mix of 429 responses and exceptions
C21_ThreeAttempts ==
  (ap_pc \in {"request", "done"} /\ ap_call.client = "ShopifyAnalyticsClient")
    => LET n == Len(ap_call.answers)
       IN  /\ n <= RETRIES
           /\ \A i \in 1..(n - 1) : ap_call.answers[i] \in FailedAnswers
           /\ ap_pc = "request" =>
                /\ n < RETRIES
                /\ \A i \in 1..n : ap_call.answers[i] \in FailedAnswers
           /\ ap_pc = "done" =>
                IF ap_call.answers[n] \in FailedAnswers
                  THEN n = RETRIES /\ ap_result.raised = "RuntimeError"
                  ELSE ap_result.raised \in {"", "JSONDecodeError"}

\* What of C21 the code keeps: the same, for calls in which no 429 carries
\* a Retry-After that is no number
ThreeAttemptsOnNumericRetryAfter ==
  (/\ ap_pc \in {"request", "done"}
   /\ \A i \in DOMAIN ap_call.answers :
        ap_call.answers[i] # "rate_limited_date")
    => C21_ThreeAttempts

(***************************************************************************)
(* generate_individual: one page per template.                             *)
(***************************************************************************)

\* The output file and the template of the 9 pages, in the order of the dict
INDIVIDUAL_TEMPLATES ==
  <<[output |-> "network-clusters.html", template |-> "network-clusters.html"],
    [output |-> "company-categories.html", template |-> "company-categories.html"],
    [output |-> "relationship-tiers.html", template |-> "relationship-tiers.html"],
    [output |-> "invitation-trends.html", template |-> "invitation-trends.html"],
    [output |-> "inbox-classification.html", template |-> "inbox-classification.html"],
    [output |-> "career-strata.html", template |-> "career-strata.html"],
    [output |-> "high-value-messages.html", template |-> "high-value-messages.html"],
    [output |-> "ad-targeting.html", template |-> "ad-targeting.html"],
    [output |-> "summary-stats.html", template |-> "summary-stats.html"]>>

PagesInit ==
  /\ pg_pc = "loop"
  /\ pg_done = <<>>
  /\ pg_generated = <<>>
  /\ pg_written = {}
  /\ Idle("pages")

\* One pass of the loop over INDIVIDUAL_TEMPLATES.items(): a template that
\* does not exist is skipped; load_template, inject_data or write_text may
\* raise, which `except Exception` logs; otherwise the page is written and
\* appended to `generated`.  After the last template the list is returned.
GeneratePage ==
  /\ pg_pc = "loop"
  /\ \E page \in {INDIVIDUAL_TEMPLATES[Len(pg_done) + 1]} :
       /\ pg_done' = Append(pg_done, page.template)
       /\ \E outcome \in {"missing", "load_raises", "inject_raises",
                          "write_raises", "written"} :
            IF outcome = "written"
              THEN /\ pg_written' = pg_written \cup {page.output}
                   /\ pg_generated' = Append(pg_generated, page.output)
              ELSE UNCHANGED <<pg_written, pg_generated>>
  /\ pg_pc' = IF Len(pg_done) + 1 = Len(INDIVIDUAL_TEMPLATES)
                THEN "done" ELSE "loop"
  /\ Frame("pages")

\* The half of C18 about generate_individual: a template that is missing or
\* whose generation raises is skipped, every later template is still
\* processed, and the returned list is exactly the pages written, in
\* template order
PagesSkipFailures ==
  pg_pc = "done" =>
    /\ pg_done = [i \in DOMAIN INDIVIDUAL_TEMPLATES |->
                    INDIVIDUAL_TEMPLATES[i].template]
    /\ pg_generated =
         LET outputs == [i \in DOMAIN INDIVIDUAL_TEMPLATES |->
                           INDIVIDUAL_TEMPLATES[i].output]
         IN  SelectSeq(outputs, LAMBDA o : o \in pg_written)

(***************************************************************************)
(* ShopifyAnalyticsClient._paginate: pages of a resource, followed by the  *)
(* Link header.                                                            *)
(***************************************************************************)

\* The most the caller asks for, the most items on a page, and the most
\* pages the store has
MaxItems == 3
MaxPageSize == 2
MaxPages == 3

\* The URL of page n of the resource
PageUrl(n) == <<"page", n>>

\* The Link headers of the response for page n: none, the next page, the
\* previous and the next page, the previous page only
LinkHeaders(n) ==
  {<<>>,
   <<[target |-> PageUrl(n + 1), rel |-> "next"]>>,
   <<[target |-> PageUrl(n - 1), rel |-> "previous"],
     [target |-> PageUrl(n + 1), rel |-> "next"]>>,
   <<[target |-> PageUrl(n - 1), rel |-> "previous"]>>}

\* url = None; if 'rel="next"' in link_header: the target between < and >
\* of the first part of the header with rel="next"
NextUrl(link_header) ==
  LET next == {i \in DOMAIN link_header : link_header[i].rel = "next"}
  IN  IF next = {} THEN None
      ELSE link_header[CHOOSE i \in next : \A j \in next : i <= j].target

SliceAll(all_items, max_items) == all_items

\* all_items[:max_items]
Slice(all_items, max_items) ==
  IF max_items >= Len(all_items) THEN all_items
  ELSE SubSeq(all_items, 1, max_items)

\* _paginate(endpoint, resource_key, params, max_items)
PaginateInit ==
  /\ pn_pc = "loop"
  /\ pn_max_items \in 0..MaxItems
  /\ pn_pages = <<>>
  /\ pn_all_items = <<>>
  /\ pn_url = PageUrl(1)
  /\ pn_result = <<>>
  /\ Idle("paginate")

\* One pass of `while url and len(all_items) < max_items`: the page at url
\* is requested, its items are appended and url becomes the next link of
\* its Link header
FetchPage ==
  /\ pn_pc = "loop"
  /\ pn_url # None
  /\ Len(pn_all_items) < pn_max_items
  /\ \E n \in {pn_url[2]} :
       \E size \in 0..MaxPageSize, link_header \in LinkHeaders(n) :
         /\ n = MaxPages => NextUrl(link_header) = None
         /\ \E items \in {[j \in 1..size |-> <<n, j>>]} :
              /\ pn_pages' = Append(pn_pages, [url |-> pn_url, items |-> items,
                                               link_header |-> link_header])
              /\ pn_all_items' = pn_all_items \o items
         /\ pn_url' = NextUrl(link_header)
  /\ UNCHANGED <<pn_pc, pn_max_items, pn_result>>
  /\ Frame("paginate")

\* The loop is left: return all_items[:max_items]
ReturnItems ==
  /\ pn_pc = "loop"
  /\ ~(pn_url # None /\ Len(pn_all_items) < pn_max_items)
  /\ pn_pc' = "done"
  /\ pn_result' = Slice(pn_all_items, pn_max_items)
  /\ UNCHANGED <<pn_max_items, pn_pages, pn_all_items, pn_url>>
  /\ Frame("paginate")

\* The items of the first n pages received, in order
Fetched(n) ==
  LET RECURSIVE Upto(_)
      Upto(k) == IF k = 0 THEN <<>> ELSE Upto(k - 1) \o pn_pages[k].items
  IN  Upto(n)

\* C20: _paginate returns at most max_items items, the prefix of length
\* min(max_items, total fetched) of the pages in the order they were
\* fetched along the next links; no page is requested once max_items items
\* are collected or a response has no next link
C20_PaginatePrefix ==
  /\ pn_pc = "done" =>
       LET total == Len(Fetched(Len(pn_pages)))
           length == IF pn_max_items < total THEN pn_max_items ELSE total
       IN  /\ Len(pn_result) <= pn_max_items
           /\ pn_result = SubSeq(Fetched(Len(pn_pages)), 1, length)
  /\ pn_pc \in {"loop", "done"} =>
       \A k \in DOMAIN pn_pages :
         /\ Len(Fetched(k - 1)) < pn_max_items
         /\ pn_pages[k].url = PageUrl(k)
         /\ k > 1 => \E i \in DOMAIN pn_pages[k - 1].link_header :
                       pn_pages[k - 1].link_header[i] =
                         [target |-> PageUrl(k), rel |-> "next"]

\* C20 witness: max_items = 3 and two pages of two items, the second with
\* a next link that is not followed: the first three items are returned
C20_Witness ==
  /\ pn_pc = "done"
  /\ pn_max_items = 3
  /\ Len(pn_pages) = 2
  /\ pn_url = PageUrl(3)
  /\ pn_result = <<<<1, 1>>, <<1, 2>>, <<2, 1>>>>

\* One pass of the loop on a store that never ends its pagination: every
\* page, with items or without, has a Link header that names a next page
\* (after the last page of the model comes its first; pn_pages keeps the
\* first MaxPages responses)
FetchEndlessPage ==
  /\ pn_pc = "loop"
  /\ pn_url # None
  /\ Len(pn_all_items) < pn_max_items
  /\ \E n \in {pn_url[2]}, size \in 0..MaxPageSize :
       \E items \in {[j \in 1..size |-> <<n, j>>]},
          link_header \in {<<[target |-> PageUrl((n % MaxPages) + 1),
                              rel |-> "next"]>>} :
         /\ pn_pages' =
              IF Len(pn_pages) < MaxPages
                THEN Append(pn_pages, [url |-> pn_url, items |-> items,
                                       link_header |-> link_header])
                ELSE pn_pages
         /\ pn_all_items' = pn_all_items \o items
         /\ pn_url' = NextUrl(link_header)
  /\ UNCHANGED <<pn_pc, pn_max_items, pn_result>>
  /\ Frame("paginate")

\* C23: _paginate terminates whenever each request returns, even if the
\* store keeps sending a next link on pages without items
C23_PaginateTerminates == <>(pn_pc = "done")

\* What of C23 the code keeps: _paginate terminates unless the store sends
\* pages without items and with a next link for ever
TerminatesUnlessEmptyPages ==
  \/ <>(pn_pc = "done")
  \/ <>[](/\ pn_pc = "loop"
          /\ pn_url # None
          /\ Len(pn_all_items) < pn_max_items)

(***************************************************************************)
(* The timing of the requests of one ShopifyAnalyticsClient.  Times are in *)
(* tenths of a second.                                                     *)
(***************************************************************************)

\* RATE_LIMIT_DELAY = 0.5
RATE_LIMIT_DELAY == 5

\* How many requests the client issues
MaxRequests == 3

\* How long a request takes until its answer is there
RequestTimes == {0, 1, 6}

\* float(response.headers.get("Retry-After", 2)) of a 429: the headers
\* "0", "0.3", "1", and no header
RetryAfterTimes == {0, 3, 10, 20}

\* A client is constructed: _last_request_time = 0, long before now
RateInit ==
  /\ rl_pc = "ready"
  /\ rl_clock = 10
  /\ rl_last_request_time = 0
  /\ rl_attempt = 0
  /\ rl_requests = <<>>
  /\ Idle("rate")

\* _raw_request is called, some time after the last call returned: it
\* sleeps until RATE_LIMIT_DELAY has passed since _last_request_time and
\* enters `for attempt in range(retries)`
CallRawRequest ==
  /\ rl_pc = "ready"
  /\ Len(rl_requests) < MaxRequests
  /\ rl_pc' = "attempt"
  /\ rl_attempt' = 0
  /\ \E idle \in {0, 2, 7} :
       \E elapsed \in {rl_clock + idle - rl_last_request_time} :
         rl_clock' = IF elapsed < RATE_LIMIT_DELAY
                       THEN rl_clock + idle + (RATE_LIMIT_DELAY - elapsed)
                       ELSE rl_clock + idle
  /\ UNCHANGED <<rl_last_request_time, rl_requests>>
  /\ Frame("rate")

\* One pass of the loop: _last_request_time = time.time(), the request is
\* issued; a 429 sleeps for Retry-After and goes on with the next attempt; a
\* good response is returned; a RequestException sleeps 2 ** attempt seconds
\* unless this was the last attempt; after the last attempt the call raises
SendRequest ==
  /\ rl_pc = "attempt"
  /\ Len(rl_requests) < MaxRequests
  /\ rl_last_request_time' = rl_clock
  /\ \E took \in RequestTimes, kind \in {"ok", "rate_limited", "exception"},
        retry_after \in RetryAfterTimes :
       /\ kind # "rate_limited" => retry_after = 0
       /\ rl_requests' = Append(rl_requests,
                                [at |-> rl_clock, kind |-> kind, took |-> took,
                                 retry_after |-> retry_after])
       /\ rl_clock' = rl_clock + took
                        + (IF kind = "rate_limited" THEN retry_after
                           ELSE IF kind = "exception" /\ rl_attempt < RETRIES - 1
                             THEN 10 * 2 ^ rl_attempt
                           ELSE 0)
       /\ IF kind = "ok" \/ rl_attempt = RETRIES - 1
            THEN rl_pc' = "ready" /\ rl_attempt' = 0
            ELSE rl_pc' = "attempt" /\ rl_attempt' = rl_attempt + 1
  /\ Frame("rate")

\* C22: between any two consecutive requests of one client, the retries
\* after a 429 or a request exception included, at least RATE_LIMIT_DELAY
\* elapses
C22_RateLimited ==
  rl_pc \in {"ready", "attempt"} =>
    \A i \in 1..(Len(rl_requests) - 1) :
      rl_requests[i + 1].at - rl_requests[i].at >= RATE_LIMIT_DELAY

\* What of C22 the code keeps: the delay after every request but a 429
\* whose answer and Retry-After together take less than RATE_LIMIT_DELAY
RateLimitedButShortRetryAfter ==
  rl_pc \in {"ready", "attempt"} =>
    \A i \in 1..(Len(rl_requests) - 1) :
      \/ rl_requests[i + 1].at - rl_requests[i].at >= RATE_LIMIT_DELAY
      \/ /\ rl_requests[i].kind = "rate_limited"
         /\ rl_requests[i].took + rl_requests[i].retry_after < RATE_LIMIT_DELAY

(***************************************************************************)
(* KlaviyoDevClient.export_profiles: pages of profiles, followed by the    *)
(* cursor of links.next.                                                   *)
(***************************************************************************)

\* The largest max_pages asked for, the most profiles on a page, and the
\* number of pages the account has
MaxPagesAsked == 2
MaxProfilesOnPage == 2
MaxProfilePages == 3

\* export_profiles(page_size, max_pages): max_pages is None or a number
ProfilesInit ==
  /\ xp_pc = "loop"
  /\ xp_max_pages \in {<<>>} \cup {<<n>> : n \in 0..MaxPagesAsked}
  /\ xp_pages = <<>>
  /\ xp_profiles = <<>>
  /\ xp_cursor = None
  /\ Idle("profiles")

\* One pass of `while True`: the page at the cursor is fetched and its
\* profiles appended; the loop is left when the response has no links.next,
\* when `max_pages and page_count >= max_pages`, or when the next link has
\* no page[cursor]
FetchProfilesPage ==
  /\ xp_pc = "loop"
  /\ \E n \in {Len(xp_pages) + 1} :
       \E size \in 0..MaxProfilesOnPage,
          next \in {"none", "no_cursor", "cursor"} :
         /\ n = MaxProfilePages => next # "cursor"
         /\ \E data \in {[j \in 1..size |-> <<n, j>>]} :
              /\ xp_pages' = Append(xp_pages, [data |-> data, next |-> next])
              /\ xp_profiles' = xp_profiles \o data
         /\ IF next = "none"
              THEN xp_pc' = "done" /\ UNCHANGED xp_cursor
            ELSE IF xp_max_pages # <<>> /\ xp_max_pages[1] # 0
                    /\ n >= xp_max_pages[1]
              THEN xp_pc' = "done" /\ UNCHANGED xp_cursor
            ELSE IF next = "no_cursor"
              THEN xp_pc' = "done" /\ xp_cursor' = None
            ELSE xp_pc' = "loop" /\ xp_cursor' = <<"cursor", n + 1>>
  /\ UNCHANGED xp_max_pages
  /\ Frame("profiles")

\* C24: with max_pages given, export_profiles fetches at most max_pages
\* pages; in every case it stops at the first page without links.next or
\* without a cursor in it, and returns the profiles of the pages fetched,
\* in fetch order
C24_ExportStopsAtMaxPages ==
  xp_pc \in {"loop", "done"} =>
    /\ xp_max_pages # <<>> => Len(xp_pages) <= xp_max_pages[1]
    /\ \A i \in 1..(Len(xp_pages) - 1) : xp_pages[i].next = "cursor"
    /\ xp_pc = "loop" /\ xp_pages # <<>> =>
         xp_pages[Len(xp_pages)].next = "cursor"
    /\ xp_profiles =
         LET RECURSIVE Upto(_)
             Upto(k) == IF k = 0 THEN <<>> ELSE Upto(k - 1) \o xp_pages[k].data
         IN  Upto(Len(xp_pages))

\* What of C24 the code keeps: the same for max_pages None or at least 1
ExportStopsAtPositiveMaxPages ==
  (xp_pc \in {"loop", "done"} /\ xp_max_pages # <<0>>)
    => C24_ExportStopsAtMaxPages

(***************************************************************************)
(* KlaviyoDevTools.import_csv: the profiles of a CSV file, submitted in    *)
(* batches.  A profile is known by its place in the file, 1..total.        *)
(***************************************************************************)

\* batch_size = 10000
BATCH_SIZE == 10000

\* len(profiles) > 10000 of bulk_import
BULK_IMPORT_LIMIT == 10000

\* The most batches a file is made of
MaxBatches == 3

\* The numbers of profiles a file has: around every multiple of the batch
\* size, and in between
FileSizes ==
  {n \in {k * BATCH_SIZE + d : k \in 0..MaxBatches, d \in {-1, 0, 1, 5000}} :
     n >= 0 /\ n <= MaxBatches * BATCH_SIZE}

BatchUnclipped(i, total) == [first |-> i + 1, last |-> i + BATCH_SIZE]

\* batch = profiles[i : i + batch_size], as the places of its first and
\* last profile
Batch(i, total) ==
  [first |-> i + 1,
   last |-> IF i + BATCH_SIZE < total THEN i + BATCH_SIZE ELSE total]

\* import_csv(filepath): the file is read
ImportInit ==
  /\ ic_pc = "loop"
  /\ ic_total \in FileSizes
  /\ ic_batches = <<>>
  /\ ic_summary = <<>>
  /\ Idle("import")

\* One pass of `for i in range(0, total, batch_size)`: the batch is handed
\* to bulk_import, which raises for more than 10,000 profiles or when the
\* API call fails; the batch is recorded as submitted or failed
SubmitBatch ==
  /\ ic_pc = "loop"
  /\ \E i \in {Len(ic_batches) * BATCH_SIZE} :
       /\ i < ic_total
       /\ \E batch \in {Batch(i, ic_total)}, api \in {"ok", "raises"} :
            \E profiles \in {batch.last - batch.first + 1} :
              ic_batches' =
                Append(ic_batches,
                       [batch |-> (i \div BATCH_SIZE) + 1,
                        first |-> batch.first,
                        profiles |-> profiles,
                        status |-> IF profiles > BULK_IMPORT_LIMIT \/ api = "raises"
                                     THEN "failed" ELSE "submitted"])
  /\ UNCHANGED <<ic_pc, ic_total, ic_summary>>
  /\ Frame("import")

\* After the loop: results["summary"]
Summarise ==
  /\ ic_pc = "loop"
  /\ Len(ic_batches) * BATCH_SIZE >= ic_total
  /\ ic_pc' = "done"
  /\ \E submitted \in {{b \in DOMAIN ic_batches :
                          ic_batches[b].status = "submitted"}} :
       LET RECURSIVE Sum(_)
           Sum(k) == IF k = 0 THEN 0
                     ELSE Sum(k - 1) + (IF k \in submitted
                                          THEN ic_batches[k].profiles ELSE 0)
       IN  ic_summary' =
             [batches_submitted |-> Cardinality(submitted),
              batches_failed |-> Len(ic_batches) - Cardinality(submitted),
              profiles_submitted |-> Sum(Len(ic_batches))]
  /\ UNCHANGED <<ic_total, ic_batches>>
  /\ Frame("import")

\* The profiles of the batches b with the given status, counted
ProfilesWithStatus(status) ==
  LET RECURSIVE Sum(_)
      Sum(k) == IF k = 0 THEN 0
                ELSE Sum(k - 1) + (IF ic_batches[k].status = status
                                     THEN ic_batches[k].profiles ELSE 0)
  IN  Sum(Len(ic_batches))

\* C25: import_csv splits the file's profiles into consecutive batches of
\* at most 10,000, submits each once, in file order, goes on after a failed
\* batch, and reports batches_submitted + batches_failed = the number of
\* batches and profiles_submitted = the profiles of the submitted batches
C25_BatchesPartition ==
  ic_pc = "done" =>
    /\ Len(ic_batches) = (ic_total + 9999) \div 10000
    /\ \A b \in DOMAIN ic_batches :
         /\ ic_batches[b].batch = b
         /\ ic_batches[b].profiles \in 1..10000
         /\ ic_batches[b].first =
              IF b = 1 THEN 1
              ELSE ic_batches[b - 1].first + ic_batches[b - 1].profiles
    /\ ProfilesWithStatus("submitted") + ProfilesWithStatus("failed") = ic_total
    /\ ic_summary.batches_submitted + ic_summary.batches_failed = Len(ic_batches)
    /\ ic_summary.profiles_submitted = ProfilesWithStatus("submitted")

\* C25 witness: a file of 20,001 profiles whose second batch fails: three
\* batches, two of them submitted with 10,001 profiles together
C25_Witness ==
  /\ ic_pc = "done"
  /\ ic_total = 20001
  /\ Len(ic_batches) = 3
  /\ ic_batches[2].status = "failed"
  /\ ic_batches[3] = [batch |-> 3, first |-> 20001, profiles |-> 1,
                      status |-> "submitted"]
  /\ ic_summary = [batches_submitted |-> 2, batches_failed |-> 1,
                   profiles_submitted |-> 10001]

(***************************************************************************)
(* KlaviyoDevTools.health_check.                                           *)
(***************************************************************************)

\* essential_events
ESSENTIAL_EVENTS ==
  <<"placed order", "started checkout", "viewed product", "added to cart">>

\* The metrics an account can have, by name, and name.lower() of each
MetricNames ==
  [Placed_Order |-> "placed order", Started_Checkout |-> "started checkout",
   Viewed_Product |-> "viewed product", Added_to_Cart |-> "added to cart",
   Opened_Email |-> "opened email"]

OverallStatusWarningFirst(statuses) ==
  IF \E i \in DOMAIN statuses : statuses[i] = "warning" THEN "degraded"
  ELSE IF \E i \in DOMAIN statuses : statuses[i] = "fail" THEN "unhealthy"
  ELSE "healthy"

\* results["status"] after `if "fail" in statuses: ... elif "warning" in
\* statuses: ...`, "healthy" before
OverallStatus(statuses) ==
  IF \E i \in DOMAIN statuses : statuses[i] = "fail" THEN "unhealthy"
  ELSE IF \E i \in DOMAIN statuses : statuses[i] = "warning" THEN "degraded"
  ELSE "healthy"

\* health_check() on an account whose API answers as api says: the checks
\* recorded, the overall status, and the API calls made
HealthCheck(api) ==
  LET Check(name, status) == [check |-> name, status |-> status]
      metric_names == {MetricNames[m] : m \in api.metrics}
      missing_events == {i \in DOMAIN ESSENTIAL_EVENTS :
                           ESSENTIAL_EVENTS[i] \notin metric_names}
      checks ==
        <<Check("API Connectivity", "pass"),
          Check("Profile Read Scope",
                IF api.export_profiles = "raises" THEN "fail" ELSE "pass"),
          Check("Metrics Available", "pass"),
          Check("E-commerce Events",
                IF missing_events # {} THEN "warning" ELSE "pass"),
          Check("Catalog Access",
                IF api.get_catalog_items = "raises" THEN "warning" ELSE "pass")>>
  IN  IF api.get_metrics = "raises"
        THEN [checks |-> <<Check("API Connectivity", "fail")>>,
              status |-> "unhealthy",
              calls |-> <<"get_metrics">>]
        ELSE [checks |-> checks,
              status |-> OverallStatus([i \in DOMAIN checks |-> checks[i].status]),
              calls |-> <<"get_metrics", "export_profiles", "get_catalog_items">>]

HealthInit ==
  /\ hc_pc = "ready"
  /\ hc_api \in [get_metrics : {"ok", "raises"},
                 metrics : SUBSET DOMAIN MetricNames,
                 export_profiles : {"ok", "raises"},
                 get_catalog_items : {"ok", "raises"}]
  /\ hc_api.get_metrics = "raises" => hc_api.metrics = {}
  /\ hc_results = <<>>
  /\ Idle("health")

\* results = health_check()
CallHealthCheck ==
  /\ hc_pc = "ready"
  /\ hc_pc' = "done"
  /\ hc_results' = HealthCheck(hc_api)
  /\ UNCHANGED hc_api
  /\ Frame("health")

\* C26: health_check returns 'unhealthy' iff some recorded check failed,
\* 'degraded' iff none failed and some check is a warning, 'healthy'
\* otherwise; when the connectivity check fails it returns with only that
\* check recorded and no further API call
C26_HealthStatus ==
  hc_pc = "done" =>
    LET Some(status) == \E i \in DOMAIN hc_results.checks :
                          hc_results.checks[i].status = status
    IN  /\ hc_results.status = "unhealthy" <=> Some("fail")
        /\ hc_results.status = "degraded" <=> (~Some("fail") /\ Some("warning"))
        /\ hc_results.status = "healthy" <=> (~Some("fail") /\ ~Some("warning"))
        /\ hc_api.get_metrics = "raises" =>
             /\ hc_results.checks =
                  <<[check |-> "API Connectivity", status |-> "fail"]>>
             /\ hc_results.calls = <<"get_metrics">>

\* C26 witness: the profile scope check fails and the catalog check warns:
\* unhealthy, with all five checks recorded
C26_Witness ==
  /\ hc_pc = "done"
  /\ Len(hc_results.checks) = 5
  /\ hc_results.checks[2].status = "fail"
  /\ hc_results.checks[5].status = "warning"
  /\ hc_results.status = "unhealthy"

(***************************************************************************)
(* SkillPackSetup.run: the setup wizard of the skill pack.                 *)
(***************************************************************************)

\* The keys of SKILLS, in the order of the dict
SKILLS ==
  <<"klaviyo-analyst", "klaviyo-developer", "google-analytics", "shopify",
    "looker-studio">>

\* What the user does when a skill is offered: declines it, gives no key,
\* gives a key that fails validation and declines to use it, or gives a
\* key that is used
Answers == {"declined", "no_key", "invalid_refused", "key"}

CollectKeysAlways(offered, non_interactive, answers) ==
  [configured |-> SelectSeq(SKILLS, LAMBDA s : s \in offered /\ answers[s] = "key"),
   skipped |-> SelectSeq(SKILLS, LAMBDA s : s \in offered /\ answers[s] # "key")]

\* collect_api_keys: every offered skill, in the order of SKILLS, is
\* appended to skipped_skills (non-interactive mode, declined, no key, an
\* invalid key refused) or to configured_skills
CollectKeys(offered, non_interactive, answers) ==
  [configured |-> SelectSeq(SKILLS, LAMBDA s : /\ s \in offered
                                               /\ ~non_interactive
                                               /\ answers[s] = "key"),
   skipped |-> SelectSeq(SKILLS, LAMBDA s : /\ s \in offered
                                            /\ (non_interactive
                                                \/ answers[s] # "key"))]

\* SkillPackSetup(pack_dir, skills_filter, non_interactive).run(skip_install)
SetupInit ==
  /\ su_pc = "prerequisites"
  /\ su_args \in [non_interactive : BOOLEAN, skip_install : BOOLEAN,
                  prerequisites_met : BOOLEAN,
                  offered : SUBSET {SKILLS[i] : i \in DOMAIN SKILLS}]
  /\ su_steps = <<>>
  /\ su_configured = <<>>
  /\ su_skipped = <<>>
  /\ su_env_files = {}
  /\ Idle("setup")

\* Step 1: `if not self.check_prerequisites(): return`
CheckPrerequisites ==
  /\ su_pc = "prerequisites"
  /\ su_steps' = Append(su_steps, "prerequisites")
  /\ su_pc' = IF su_args.prerequisites_met THEN "keys" ELSE "done"
  /\ UNCHANGED <<su_args, su_configured, su_skipped, su_env_files>>
  /\ Frame("setup")

\* Step 2: collect_api_keys(), and the return when nothing was configured
CollectApiKeys ==
  /\ su_pc = "keys"
  /\ su_steps' = Append(su_steps, "keys")
  /\ \E answers \in [su_args.offered -> Answers] :
       \E lists \in {CollectKeys(su_args.offered, su_args.non_interactive,
                                 answers)} :
         /\ su_configured' = lists.configured
         /\ su_skipped' = lists.skipped
         /\ su_pc' = IF lists.configured = <<>> THEN "done" ELSE "env"
  /\ UNCHANGED <<su_args, su_env_files>>
  /\ Frame("setup")

\* Step 3: create_env_files() writes the .env of every skill with keys
CreateEnvFiles ==
  /\ su_pc = "env"
  /\ su_steps' = Append(su_steps, "env")
  /\ su_env_files' = {su_configured[i] : i \in DOMAIN su_configured}
  /\ su_pc' = IF su_args.skip_install THEN "health" ELSE "install"
  /\ UNCHANGED <<su_args, su_configured, su_skipped>>
  /\ Frame("setup")

\* Step 4: install_dependencies(), unless skip_install
InstallDependencies ==
  /\ su_pc = "install"
  /\ su_steps' = Append(su_steps, "install")
  /\ su_pc' = "health"
  /\ UNCHANGED <<su_args, su_configured, su_skipped, su_env_files>>
  /\ Frame("setup")

\* Step 5: run_health_checks()
RunHealthChecks ==
  /\ su_pc = "health"
  /\ su_steps' = Append(su_steps, "health")
  /\ su_pc' = "summary"
  /\ UNCHANGED <<su_args, su_configured, su_skipped, su_env_files>>
  /\ Frame("setup")

\* print_summary()
PrintSummary ==
  /\ su_pc = "summary"
  /\ su_steps' = Append(su_steps, "summary")
  /\ su_pc' = "done"
  /\ UNCHANGED <<su_args, su_configured, su_skipped, su_env_files>>
  /\ Frame("setup")

\* C27: the steps of run execute in the order prerequisites, keys, .env,
\* installation, health checks, summary; .env creation, installation and
\* health checks happen only if the prerequisites passed and a skill was
\* configured; every offered skill ends in exactly one of configured_skills
\* and skipped_skills; in non-interactive mode no skill is configured and
\* no .env file is written
C27_SetupOrder ==
  su_pc # "idle" =>
    LET order == <<"prerequisites", "keys", "env", "install", "health",
                   "summary">>
        Place(step) == CHOOSE k \in DOMAIN order : order[k] = step
        Listed(list) == {list[i] : i \in DOMAIN list}
    IN  /\ \A i \in 1..(Len(su_steps) - 1) :
             Place(su_steps[i]) < Place(su_steps[i + 1])
        /\ su_steps # <<>> => su_steps[1] = "prerequisites"
        /\ (\E i \in DOMAIN su_steps : su_steps[i] \in {"env", "install", "health"})
             => su_args.prerequisites_met /\ su_configured # <<>>
        /\ (\E i \in DOMAIN su_steps : su_steps[i] = "keys") =>
             /\ Listed(su_configured) \cup Listed(su_skipped) = su_args.offered
             /\ Listed(su_configured) \cap Listed(su_skipped) = {}
             /\ Len(su_configured) + Len(su_skipped) = Cardinality(su_args.offered)
        /\ su_env_files \subseteq Listed(su_configured)
        /\ su_args.non_interactive => su_configured = <<>> /\ su_env_files = {}

\* C27 witness: an interactive run to the end in which shopify and
\* looker-studio are configured, klaviyo-analyst is skipped, and all six
\* steps were taken
C27_Witness ==
  /\ su_pc = "done"
  /\ su_steps = <<"prerequisites", "keys", "env", "install", "health", "summary">>
  /\ su_configured = <<"shopify", "looker-studio">>
  /\ su_skipped = <<"klaviyo-analyst">>
  /\ su_env_files = {"shopify", "looker-studio"}

(***************************************************************************)
(* Specifications: one per component, the others idle                      *)
(***************************************************************************)

\* sanitize_all on a connection list (build_name_map, then the name pass)
SpecNames ==
  NamesInit /\ [][BuildNameMapStep \/ SanitizeAll]_vars

\* _is_spam on a message
SpecSpam ==
  SpamInit
    /\ [][AppendPhrase \/ AppendFiller \/ ClassifyMessage]_vars

\* cluster_network on connections, categorize_companies on company follows
SpecCluster ==
  ClusterInit
    /\ [][AddConnection \/ AddFollow \/ CallClusterNetwork
            \/ CallCategorizeCompanies]_vars

SpecDate ==
  DateInit
    /\ [][StartDate \/ AppendDateChunk \/ CallParseDate]_vars

SpecCsv ==
  CsvInit
    /\ [][WriteJunkLine \/ WriteHeader \/ WriteRow
            \/ CallParseConnections]_vars

SpecScore ==
  ScoreInit /\ [][AddMessage \/ CallScoreMessages]_vars

SpecCompanies ==
  CompaniesInit /\ [][AddCompanyRecord \/ SanitizeCompanies]_vars

SpecInbox ==
  InboxInit /\ [][AddInboxMessage \/ SanitizeAllData \/ AnalyzeBoth]_vars

SpecViz == VizInit /\ [][AppendTemplateChunk \/ CallInjectData]_vars

SpecOutput == OutputInit /\ [][AppendSegment \/ RunWithOutput]_vars

SpecApi ==
  ApiInit /\ [][CallKlaviyoMethod \/ StartShopifyRequest \/ ShopifyAttempt]_vars

SpecRows ==
  CsvInit /\ [][WriteJunkLine \/ WriteHeader \/ WriteRow \/ WriteBadRow
                  \/ CallParseConnections]_vars

SpecPages == PagesInit /\ [][GeneratePage]_vars

SpecExport ==
  ExportInit /\ [][AddExportFile \/ CallParser \/ CallParseAll]_vars

SpecPaginate == PaginateInit /\ [][FetchPage \/ ReturnItems]_vars

SpecRate == RateInit /\ [][CallRawRequest \/ SendRequest]_vars

SpecPaginateFair ==
  /\ PaginateInit
  /\ [][FetchEndlessPage \/ ReturnItems]_vars
  /\ WF_vars(FetchEndlessPage \/ ReturnItems)

SpecProfiles == ProfilesInit /\ [][FetchProfilesPage]_vars

SpecImport == ImportInit /\ [][SubmitBatch \/ Summarise]_vars

SpecHealth == HealthInit /\ [][CallHealthCheck]_vars

SpecSetup ==
  SetupInit /\ [][CheckPrerequisites \/ CollectApiKeys \/ CreateEnvFiles
                    \/ InstallDependencies \/ RunHealthChecks
                    \/ PrintSummary]_vars

====
